---- MODULE Spec2Model ----
(***************************************************************************)
(* dynmail: the dispatch engine (src/src/dynmail/dynmail.ts), its value    *)
(* objects (Provider, Sender) and the Result contract.                     *)
(*                                                                         *)
(* A registry is built by dynmail(params); send(sendParams) resolves a     *)
(* provider and a sender by id, calls the provider's send and relays its   *)
(* Result (safe mode) or unwraps it (throwing mode).  Promises are         *)
(* modelled by their state: pending, fulfilled with a value, or rejected   *)
(* with a value.                                                           *)
(***************************************************************************)
EXTENDS Integers, Sequences, FiniteSets, TLC

VARIABLES
    mail,        \* the registry returned by dynmail(): providerList, senderList, safe
    pc,          \* position of the call in flight: idle, awaitProvider, awaitSend, settled
    sendParams,  \* the argument of the mail.send() call in flight
    invoked,     \* provider.send invocations made by the call in flight, in order,
                 \* each with the promise that provider's send returned
    inner,       \* promise of the inner `send` closure (dynmail.ts:35)
    outcome,     \* promise returned to the caller of mail.send()
    flights,     \* the calls of mail.send() that run concurrently, each with
                 \* its own sendParams, invoked, inner, outcome and position
    signal,      \* the raw failure signal handed to a transport's classifier
    classified,  \* the error value the classifier returned for it
    earlier,     \* the first signal classified, with the error returned for it
    config,      \* the arguments and the environment of a transport factory
    instance,    \* what the factory returned or threw, with its closure
    cache,       \* the instance's resolvedApiKey, resolvedUrl, ... variables
    calls,       \* how often each function-valued credential was invoked
    sends,       \* the calls of the instance's send, each with its position
    senderParams,\* the argument of sender()
    this,        \* the Sender it returned
    formatted    \* what this.toString() returned

(* the variables of the dispatch engine and of the classifiers *)
dispatchVars == <<mail, pc, sendParams, invoked, inner, outcome, flights>>
classifyVars == <<signal, classified, earlier>>
transportVars == <<config, instance, cache, calls, sends>>
senderVars == <<senderParams, this, formatted>>

(* what an operation of the dispatch engine, or of a classifier, leaves alone *)
outsideDispatch == <<classifyVars, transportVars, senderVars>>
outsideClassify == <<dispatchVars, transportVars, senderVars>>
outsideTransport == <<dispatchVars, classifyVars, senderVars>>
outsideSender == <<dispatchVars, classifyVars, transportVars>>

vars ==
    <<mail, pc, sendParams, invoked, inner, outcome, flights, signal, classified, earlier,
      config, instance, cache, calls, sends, senderParams, this, formatted>>

----------------------------------------------------------------------------
(* Bounds *)

MaxProviders == 2
MaxSenders == 2

(* JavaScript's undefined, for string-valued fields *)
Undefined == "undefined"

(* ids used for registered entries, and the hints a caller may pass *)
Ids == {"default", "a"}
Hints == Ids \cup {"missing-id", Undefined}

----------------------------------------------------------------------------
(* Value objects *)

(* new Provider({id, options, send}): id defaults to 'default' *)
Provider(id, supportsAttachments) ==
    [id |-> IF id = Undefined THEN "default" ELSE id,
     provider |-> "none",
     options |-> [supportsAttachments |-> supportsAttachments]]

(* new Sender({id, name, email}): id defaults to 'default' *)
Sender(id, name, email) ==
    [id |-> IF id = Undefined THEN "default" ELSE id,
     name |-> name,
     email |-> email]

ProviderSet ==
    { Provider(id, att) : id \in Ids \cup {Undefined}, att \in BOOLEAN }

SenderSet ==
    { Sender(Undefined, Undefined, "default@example.com"),
      Sender("a", Undefined, "a@example.com"),
      Sender("a", "Test", "test@example.com") }

SeqsUpTo(S, n) == UNION { [1..k -> S] : k \in 0..n }

----------------------------------------------------------------------------
(* Errors and Results *)

DynmailError(name, message) == [name |-> name, message |-> message]

ProviderNotFoundError(providerId) ==
    DynmailError("ProviderNotFoundError",
                 "Provider '" \o providerId \o "' not found.")

SenderNotFoundError(senderId) ==
    DynmailError("SenderNotFoundError",
                 "Sender '" \o senderId \o "' not found.")

Success == [status |-> "success"]
Failure(error) == [status |-> "failure", error |-> error]

(* promise states *)
Pending == [kind |-> "pending"]
Fulfilled(value) == [kind |-> "fulfilled", value |-> value]
Rejected(value) == [kind |-> "rejected", value |-> value]

----------------------------------------------------------------------------
(* Inputs *)

(* the message part of a mail.send() argument: a minimal one and a full one *)
Messages ==
    { [to |-> "recipient@example.com", subject |-> "Test", body |-> "<p>Hello</p>",
       text |-> Undefined, cc |-> Undefined, bcc |-> Undefined,
       replyTo |-> Undefined, headers |-> Undefined, attachments |-> Undefined],
      [to |-> "a@example.com,b@example.com", subject |-> "Test Subject",
       body |-> "<p>HTML Body</p>", text |-> "Plain text",
       cc |-> "cc@example.com", bcc |-> "bcc1@example.com,bcc2@example.com",
       replyTo |-> "reply@example.com", headers |-> "X-Custom: value",
       attachments |-> "file.pdf"] }

(* DynmailSendMailParams: routing hints plus the message *)
WithHints(m, provider, from) ==
    [provider |-> provider, from |-> from,
     to |-> m.to, subject |-> m.subject, body |-> m.body, text |-> m.text,
     cc |-> m.cc, bcc |-> m.bcc, replyTo |-> m.replyTo, headers |-> m.headers,
     attachments |-> m.attachments]

DynmailSendMailParams ==
    { WithHints(m, provider, from) : m \in Messages, provider \in Hints, from \in Hints }

(* no call in flight *)
NoParams ==
    [provider |-> Undefined, from |-> Undefined,
     to |-> Undefined, subject |-> Undefined, body |-> Undefined, text |-> Undefined,
     cc |-> Undefined, bcc |-> Undefined, replyTo |-> Undefined, headers |-> Undefined,
     attachments |-> Undefined]

(* DynmailParams: safe is optional *)
DynmailParams ==
    { [providers |-> ps, senders |-> ss] :
        ps \in SeqsUpTo(ProviderSet, MaxProviders), ss \in SeqsUpTo(SenderSet, MaxSenders) }
    \cup
    { [providers |-> ps, senders |-> ss, safe |-> b] :
        ps \in SeqsUpTo(ProviderSet, MaxProviders), ss \in SeqsUpTo(SenderSet, MaxSenders),
        b \in BOOLEAN }

(* what the promise returned by a provider's send may settle to: a Result,  *)
(* or a rejection (a send function that throws, e.g. resend.ts:73 outside   *)
(* its try block)                                                           *)
ProviderOutcomes ==
    { Fulfilled(Success),
      Fulfilled(Failure(DynmailError("Error", "Send failed"))),
      Fulfilled(Failure(DynmailError("RateLimitExceededError", "Rate limit exceeded"))),
      Rejected(DynmailError("Error", "apiKey failed")) }

----------------------------------------------------------------------------
(* dynmail(params) *)

(* variant: the constructor validates its lists at run time *)
dynmailValidating(params) ==
    [kind |-> IF /\ Len(params.providers) > 0
                 /\ Len(params.senders) > 0
                 /\ \A i, j \in 1..Len(params.providers) :
                        params.providers[i].id = params.providers[j].id => i = j
                 /\ \A i, j \in 1..Len(params.senders) :
                        params.senders[i].id = params.senders[j].id => i = j
              THEN "registry" ELSE "TypeError",
     providerList |-> params.providers,
     senderList |-> params.senders,
     safe |-> IF "safe" \in DOMAIN params THEN params.safe ELSE FALSE]

dynmail(params) ==
    [kind |-> "registry",
     providerList |-> params.providers,
     senderList |-> params.senders,
     safe |-> IF "safe" \in DOMAIN params THEN params.safe ELSE FALSE]

(* type CheckProvidersForAttachmentSupport<Providers>: the attachments field *)
(* of a send is typed Attachment[] when some registered provider has        *)
(* supportsAttachments: true, and as an error string (so that passing an    *)
(* array does not compile) when none has                                    *)
CheckProvidersForAttachmentSupport(providers) ==
    \E i \in 1..Len(providers) : providers[i].options.supportsAttachments

(* types ValidateProviders / ValidateSenders: a non-empty list whose ids    *)
(* are pairwise different compiles                                          *)
ValidateList(list) ==
    /\ Len(list) > 0
    /\ \A i, j \in 1..Len(list) : list[i].id = list[j].id => i = j

(* list.find((e) => e.id === id): index of the first match, 0 for undefined *)
find(list, id) ==
    IF \E i \in 1..Len(list) : list[i].id = id
    THEN CHOOSE i \in 1..Len(list) :
            /\ list[i].id = id
            /\ \A j \in 1..(i - 1) : list[j].id # id
    ELSE 0

(* variant: falls back to the last entry *)
findOrLast(list, id) ==
    IF find(list, id) # 0 THEN find(list, id) ELSE Len(list)

(* list.find(...) || list[0]: 0 stands for undefined (empty list) *)
findOrFirst(list, id) ==
    IF find(list, id) # 0 THEN find(list, id)
    ELSE IF Len(list) > 0 THEN 1 ELSE 0

(* variant: no default id, an absent hint matches nothing *)
orNothing(hint) == hint

(* a ?? 'default' *)
orDefault(hint) == IF hint = Undefined THEN "default" ELSE hint

(* variant: cc and bcc exchanged *)
SendMailParamsSwapped(sender, p) ==
    [from |-> sender,
     to |-> p.to,
     html |-> p.body,
     subject |-> p.subject,
     bcc |-> p.cc,
     cc |-> p.bcc,
     headers |-> p.headers,
     replyTo |-> p.replyTo,
     text |-> p.text]

(* the argument of provider.send, dynmail.ts:71-81 *)
SendMailParams(sender, p) ==
    [from |-> sender,
     to |-> p.to,
     html |-> p.body,
     subject |-> p.subject,
     bcc |-> p.bcc,
     cc |-> p.cc,
     headers |-> p.headers,
     replyTo |-> p.replyTo,
     text |-> p.text]

(* variant: not-found errors are thrown in both modes *)
notFoundThrows(safe, error) == Rejected(error)

(* a not-found error leaves the inner send: returned in safe mode, thrown otherwise *)
notFound(safe, error) ==
    IF safe THEN Fulfilled(Failure(error)) ELSE Rejected(error)

(* variant: the sender is resolved, and its absence reported, first *)
sendSenderFirst(m, p) ==
    LET providerId == orDefault(p.provider)
        provider == findOrFirst(m.providerList, providerId)
        senderId == orDefault(p.from)
        sender == findOrFirst(m.senderList, senderId)
    IN  IF sender = 0
        THEN [kind |-> "settled",
              promise |-> notFound(m.safe, SenderNotFoundError(senderId))]
        ELSE IF provider = 0
        THEN [kind |-> "settled",
              promise |-> notFound(m.safe, ProviderNotFoundError(providerId))]
        ELSE [kind |-> "dispatch",
              provider |-> provider,
              params |-> SendMailParams(m.senderList[sender], p)]

(* variant: the sender is looked up with the provider hint *)
sendSenderByProviderHint(m, p) ==
    LET providerId == orDefault(p.provider)
        provider == findOrFirst(m.providerList, providerId)
        senderId == orDefault(p.provider)
        sender == findOrFirst(m.senderList, senderId)
    IN  IF provider = 0
        THEN [kind |-> "settled",
              promise |-> notFound(m.safe, ProviderNotFoundError(providerId))]
        ELSE IF sender = 0
        THEN [kind |-> "settled",
              promise |-> notFound(m.safe, SenderNotFoundError(senderId))]
        ELSE [kind |-> "dispatch",
              provider |-> provider,
              params |-> SendMailParams(m.senderList[sender], p)]

(* the synchronous part of the inner send closure, dynmail.ts:35-82:        *)
(* either it settles at once (not found) or it calls one provider's send    *)
send(m, p) ==
    LET providerId == orDefault(p.provider)
        provider == findOrFirst(m.providerList, providerId)
        senderId == orDefault(p.from)
        sender == findOrFirst(m.senderList, senderId)
    IN  IF provider = 0
        THEN [kind |-> "settled",
              promise |-> notFound(m.safe, ProviderNotFoundError(providerId))]
        ELSE IF sender = 0
        THEN [kind |-> "settled",
              promise |-> notFound(m.safe, SenderNotFoundError(senderId))]
        ELSE [kind |-> "dispatch",
              provider |-> provider,
              params |-> SendMailParams(m.senderList[sender], p)]

(* variant: the wrapper throws a fresh DynmailError instead of result.error *)
unwrapWrapping(settled) ==
    IF settled.kind = "rejected" THEN settled
    ELSE IF settled.value.status = "failure"
    THEN Rejected(DynmailError("DynmailError", settled.value.error.message))
    ELSE Fulfilled(settled.value)

(* the throwing wrapper, dynmail.ts:88-94, resumed with the settled inner promise *)
unwrap(settled) ==
    IF settled.kind = "rejected" THEN settled
    ELSE IF settled.value.status = "failure" THEN Rejected(settled.value.error)
    ELSE Fulfilled(settled.value)

(* mail.send(p) from call to settlement, for a registry m whose resolved  *)
(* provider's promise settles to b: dynmail.ts:84-96 over the inner send    *)
mailSend(m, p, b) ==
    LET s == send(m, p)
        settled == IF s.kind = "dispatch" THEN b ELSE s.promise
    IN  IF m.safe THEN settled ELSE unwrap(settled)

----------------------------------------------------------------------------
(* Error taxonomies of the transports.  An error value is a record of its  *)
(* class, name, message, statusCode, code and suggestion.  A backquote in  *)
(* a source string is written as a single quote.                           *)

(* JavaScript's undefined, for number-valued arguments (statusCode?) *)
UndefinedNumber == -1

(* String.prototype.includes, case-sensitive *)
includes(s, t) ==
    \E i \in 0..(Len(s) - Len(t)) : SubSeq(s, i + 1, i + Len(t)) = t

(* provider.toUpperCase() for the provider names the factories pass *)
toUpperCase(provider) ==
    IF provider = "resend" THEN "RESEND"
    ELSE IF provider = "plunk" THEN "PLUNK"
    ELSE provider

(* error classes of src/unnamed/part_004 *)
ResendError(message, statusCode, code, suggestion) ==
    [class |-> "ResendError", name |-> "ResendError", message |-> message,
     statusCode |-> statusCode, code |-> code, suggestion |-> suggestion]

(* new C(argument) for the subclasses C of ResendError; the argument is  *)
(* Undefined where the constructor takes none or is called without one  *)
newResendError(class, argument) ==
    CASE class = "MissingApiKeyConfigError" ->
            [class |-> "MissingApiKeyConfigError", name |-> "MissingApiKeyConfigError",
             message |-> "Missing API key for " \o argument \o " provider. Please provide an API key via the 'apiKey' parameter or set the '" \o toUpperCase(argument) \o "_API_KEY' environment variable.",
             statusCode |-> 500, code |-> "missing_api_key_config",
             suggestion |-> "Provide an API key via the 'apiKey' parameter or set the '" \o toUpperCase(argument) \o "_API_KEY' environment variable."]
      [] class = "InvalidIdempotencyKeyError" ->
            [class |-> "InvalidIdempotencyKeyError", name |-> "ResendError",
             message |-> "The key must be between 1-256 chars.",
             statusCode |-> 400, code |-> "invalid_idempotency_key",
             suggestion |-> "Retry with a valid idempotency key."]
      [] class = "ValidationError" ->
            [class |-> "ValidationError", name |-> "ResendError",
             message |-> IF argument = Undefined THEN "We found an error with one or more fields in the request." ELSE argument,
             statusCode |-> 400, code |-> "validation_error",
             suggestion |-> "The message will contain more details about what field and error were found."]
      [] class = "MissingApiKeyError" ->
            [class |-> "MissingApiKeyError", name |-> "ResendError",
             message |-> "Missing API key in the authorization header.",
             statusCode |-> 401, code |-> "missing_api_key",
             suggestion |-> "Include the following header in the request: 'Authorization: Bearer YOUR_API_KEY'."]
      [] class = "RestrictedApiKeyError" ->
            [class |-> "RestrictedApiKeyError", name |-> "ResendError",
             message |-> "This API key is restricted to only send emails.",
             statusCode |-> 401, code |-> "restricted_api_key",
             suggestion |-> "Make sure the API key has 'Full access' to perform actions other than sending emails."]
      [] class = "InvalidApiKeyError" ->
            [class |-> "InvalidApiKeyError", name |-> "ResendError",
             message |-> "API key is invalid.",
             statusCode |-> 403, code |-> "invalid_api_key",
             suggestion |-> "Make sure the API key is correct or generate a new API key in the dashboard."]
      [] class = "NotFoundError" ->
            [class |-> "NotFoundError", name |-> "ResendError",
             message |-> "The requested endpoint does not exist.",
             statusCode |-> 404, code |-> "not_found",
             suggestion |-> "Change your request URL to match a valid API endpoint."]
      [] class = "MethodNotAllowedError" ->
            [class |-> "MethodNotAllowedError", name |-> "ResendError",
             message |-> "Method is not allowed for the requested path.",
             statusCode |-> 405, code |-> "method_not_allowed",
             suggestion |-> "Change your API endpoint to use a valid method."]
      [] class = "InvalidIdempotentRequestError" ->
            [class |-> "InvalidIdempotentRequestError", name |-> "ResendError",
             message |-> "Same idempotency key used with a different request payload.",
             statusCode |-> 409, code |-> "invalid_idempotent_request",
             suggestion |-> "Change your idempotency key or payload."]
      [] class = "ConcurrentIdempotentRequestsError" ->
            [class |-> "ConcurrentIdempotentRequestsError", name |-> "ResendError",
             message |-> "Same idempotency key used while original request is still in progress.",
             statusCode |-> 409, code |-> "concurrent_idempotent_requests",
             suggestion |-> "Try the request again later."]
      [] class = "InvalidAttachmentError" ->
            [class |-> "InvalidAttachmentError", name |-> "ResendError",
             message |-> "Attachment must have either a 'content' or 'path'.",
             statusCode |-> 422, code |-> "invalid_attachment",
             suggestion |-> "Attachments must either have a 'content' (strings, Buffer, or Stream contents) or 'path' to a remote resource (better for larger attachments)."]
      [] class = "InvalidFromAddressError" ->
            [class |-> "InvalidFromAddressError", name |-> "ResendError",
             message |-> "Invalid 'from' field.",
             statusCode |-> 422, code |-> "invalid_from_address",
             suggestion |-> "Make sure the 'from' field is valid. The email address needs to follow the 'email@example.com' or 'Name <email@example.com>' format."]
      [] class = "InvalidAccessError" ->
            [class |-> "InvalidAccessError", name |-> "ResendError",
             message |-> "Access must be \"full_access\" | \"sending_access\".",
             statusCode |-> 422, code |-> "invalid_access",
             suggestion |-> "Make sure the API key has necessary permissions."]
      [] class = "InvalidParameterError" ->
            [class |-> "InvalidParameterError", name |-> "ResendError",
             message |-> "The " \o argument \o " must be a valid UUID.",
             statusCode |-> 422, code |-> "invalid_parameter",
             suggestion |-> "Check the value and make sure it's valid."]
      [] class = "InvalidRegionError" ->
            [class |-> "InvalidRegionError", name |-> "ResendError",
             message |-> "Region must be \"us-east-1\" | \"eu-west-1\" | \"sa-east-1\".",
             statusCode |-> 422, code |-> "invalid_region",
             suggestion |-> "Make sure the correct region is selected."]
      [] class = "MissingRequiredFieldError" ->
            [class |-> "MissingRequiredFieldError", name |-> "ResendError",
             message |-> "The request body is missing one or more required fields"
                            \o (IF argument = Undefined THEN "" ELSE ": " \o argument) \o ".",
             statusCode |-> 422, code |-> "missing_required_field",
             suggestion |-> "Check the error message to see the list of missing fields."]
      [] class = "DailyQuotaExceededError" ->
            [class |-> "DailyQuotaExceededError", name |-> "ResendError",
             message |-> "You have reached your daily email sending quota.",
             statusCode |-> 429, code |-> "daily_quota_exceeded",
             suggestion |-> "Upgrade your plan to remove the daily quota limit or wait until 24 hours have passed to continue sending."]
      [] class = "RateLimitExceededError" ->
            [class |-> "RateLimitExceededError", name |-> "ResendError",
             message |-> "Too many requests. Please limit the number of requests per second. Or contact support to increase rate limit.",
             statusCode |-> 429, code |-> "rate_limit_exceeded",
             suggestion |-> "You should read the response headers and reduce the rate at which you request the API. This can be done by introducing a queue mechanism or reducing the number of concurrent requests per second. If you have specific requirements, contact support to request a rate increase."]
      [] class = "SecurityError" ->
            [class |-> "SecurityError", name |-> "ResendError",
             message |-> IF argument = Undefined THEN "We may have found a security issue with the request." ELSE argument,
             statusCode |-> 451, code |-> "security_error",
             suggestion |-> "The message will contain more details. Contact support for more information."]
      [] class = "ApplicationError" ->
            [class |-> "ApplicationError", name |-> "ResendError",
             message |-> "An unexpected error occurred.",
             statusCode |-> 500, code |-> "application_error",
             suggestion |-> "Try the request again later. If the error does not resolve, check our status page for service updates."]
      [] class = "InternalServerError" ->
            [class |-> "InternalServerError", name |-> "ResendError",
             message |-> "An unexpected error occurred.",
             statusCode |-> 500, code |-> "internal_server_error",
             suggestion |-> "Try the request again later. If the error does not resolve, check our status page for service updates."]

(* error classes of src/src/provider/plunk/plunk.error.ts *)
PlunkError(message, statusCode, code, suggestion) ==
    [class |-> "PlunkError", name |-> "PlunkError", message |-> message,
     statusCode |-> statusCode, code |-> code, suggestion |-> suggestion]

(* new C(argument) for the subclasses C of PlunkError *)
newPlunkError(class, argument) ==
    CASE class = "MissingApiKeyConfigError" ->
            [class |-> "MissingApiKeyConfigError", name |-> "MissingApiKeyConfigError",
             message |-> "Missing API key for " \o argument \o " provider. Please provide an API key via the 'apiKey' parameter or set the '" \o toUpperCase(argument) \o "_API_KEY' environment variable.",
             statusCode |-> 500, code |-> "missing_api_key_config",
             suggestion |-> "Provide an API key via the 'apiKey' parameter or set the '" \o toUpperCase(argument) \o "_API_KEY' environment variable."]
      [] class = "ValidationError" ->
            [class |-> "ValidationError", name |-> "PlunkError",
             message |-> argument,
             statusCode |-> 400, code |-> "validation_error",
             suggestion |-> "Please check your request data and ensure all required fields are correctly formatted."]
      [] class = "MissingAuthorizationHeaderError" ->
            [class |-> "MissingAuthorizationHeaderError", name |-> "PlunkError",
             message |-> "No authorization header passed",
             statusCode |-> 401, code |-> "missing_authorization_header",
             suggestion |-> "Include the Authorization header: \"Authorization: Bearer sk_your_secret_key\""]
      [] class = "MalformedAuthorizationHeaderError" ->
            [class |-> "MalformedAuthorizationHeaderError", name |-> "PlunkError",
             message |-> argument,
             statusCode |-> 401, code |-> "malformed_authorization_header",
             suggestion |-> "Ensure your authorization header follows the format: \"Bearer sk_your_secret_key\""]
      [] class = "InvalidApiKeyFormatError" ->
            [class |-> "InvalidApiKeyFormatError", name |-> "PlunkError",
             message |-> argument,
             statusCode |-> 401, code |-> "invalid_api_key_format",
             suggestion |-> "API keys must start with \"sk_\" for secret keys or \"pk_\" for public keys"]
      [] class = "InvalidSecretKeyError" ->
            [class |-> "InvalidSecretKeyError", name |-> "PlunkError",
             message |-> argument,
             statusCode |-> 401, code |-> "invalid_secret_key",
             suggestion |-> "Secret keys must start with \"sk_\" and be passed as Bearer sk_your_secret_key"]
      [] class = "InvalidPublicKeyError" ->
            [class |-> "InvalidPublicKeyError", name |-> "PlunkError",
             message |-> argument,
             statusCode |-> 401, code |-> "invalid_public_key",
             suggestion |-> "Public keys must start with \"pk_\" and be passed as Bearer pk_your_public_key"]
      [] class = "IncorrectBearerTokenError" ->
            [class |-> "IncorrectBearerTokenError", name |-> "PlunkError",
             message |-> "Incorrect Bearer token specified",
             statusCode |-> 401, code |-> "incorrect_bearer_token",
             suggestion |-> "Verify your API key is correct and has not been regenerated"]
      [] class = "DomainNotVerifiedError" ->
            [class |-> "DomainNotVerifiedError", name |-> "PlunkError",
             message |-> "Verify your domain before you start sending",
             statusCode |-> 401, code |-> "domain_not_verified",
             suggestion |-> "Complete domain verification in your Plunk dashboard before sending emails"]
      [] class = "InvalidFromDomainError" ->
            [class |-> "InvalidFromDomainError", name |-> "PlunkError",
             message |-> "Custom from address must be from a verified domain",
             statusCode |-> 401, code |-> "invalid_from_domain",
             suggestion |-> "The from address must use the same domain as verified in your project settings"]
      [] class = "UnauthorizedError" ->
            [class |-> "UnauthorizedError", name |-> "PlunkError",
             message |-> argument,
             statusCode |-> 401, code |-> "unauthorized",
             suggestion |-> "Check your authentication credentials and permissions"]
      [] class = "ForbiddenError" ->
            [class |-> "ForbiddenError", name |-> "PlunkError",
             message |-> argument,
             statusCode |-> 403, code |-> "forbidden",
             suggestion |-> "You do not have permission to perform this action"]
      [] class = "ProjectNotFoundError" ->
            [class |-> "ProjectNotFoundError", name |-> "PlunkError",
             message |-> "That project was not found",
             statusCode |-> 404, code |-> "project_not_found",
             suggestion |-> "Ensure the project exists and you have access to it"]
      [] class = "NotFoundError" ->
            [class |-> "NotFoundError", name |-> "PlunkError",
             message |-> argument,
             statusCode |-> 404, code |-> "not_found",
             suggestion |-> "The requested resource could not be found"]
      [] class = "UnprocessableEntityError" ->
            [class |-> "UnprocessableEntityError", name |-> "PlunkError",
             message |-> argument,
             statusCode |-> 422, code |-> "unprocessable_entity",
             suggestion |-> "Review the request data format and field requirements"]
      [] class = "TooManyAttachmentsError" ->
            [class |-> "TooManyAttachmentsError", name |-> "PlunkError",
             message |-> "Too many attachments. Maximum of 5 attachments allowed.",
             statusCode |-> 422, code |-> "too_many_attachments",
             suggestion |-> "Reduce the number of attachments to 5 or fewer"]
      [] class = "RateLimitExceededError" ->
            [class |-> "RateLimitExceededError", name |-> "PlunkError",
             message |-> "Rate limit exceeded",
             statusCode |-> 429, code |-> "rate_limit_exceeded",
             suggestion |-> "Reduce your request frequency or contact support to increase your rate limit"]
      [] class = "InternalServerError" ->
            [class |-> "InternalServerError", name |-> "PlunkError",
             message |-> "An unexpected error occurred",
             statusCode |-> 500, code |-> "internal_server_error",
             suggestion |-> "Try the request again later. If the error persists, contact support"]

(* error classes of src/src/provider/ses/ses.error.ts *)
SesError(message, statusCode, code, suggestion) ==
    [class |-> "SesError", name |-> "SesError", message |-> message,
     statusCode |-> statusCode, code |-> code, suggestion |-> suggestion]

(* new C(argument) for the subclasses C of SesError *)
newSesError(class, argument) ==
    CASE class = "MissingCredentialsConfigError" ->
            [class |-> "MissingCredentialsConfigError", name |-> "MissingCredentialsConfigError",
             message |-> "Missing AWS credentials. Please provide accessKeyId, secretAccessKey, and region via the configuration options or set the AWS_ACCESS_KEY_ID, AWS_SECRET_ACCESS_KEY, and AWS_REGION environment variables.",
             statusCode |-> 500, code |-> "missing_credentials_config",
             suggestion |-> "Provide AWS credentials via the configuration options or set the appropriate environment variables."]
      [] class = "AccountSendingPausedError" ->
            [class |-> "AccountSendingPausedError", name |-> "AccountSendingPausedError",
             message |-> "Email sending is disabled for your entire Amazon SES account.",
             statusCode |-> 400, code |-> "AccountSendingPausedException",
             suggestion |-> "Enable email sending for your Amazon SES account using UpdateAccountSendingEnabled."]
      [] class = "ConfigurationSetDoesNotExistError" ->
            [class |-> "ConfigurationSetDoesNotExistError", name |-> "ConfigurationSetDoesNotExistError",
             message |-> IF argument \in {Undefined, ""} THEN "The configuration set does not exist." ELSE argument,
             statusCode |-> 400, code |-> "ConfigurationSetDoesNotExist",
             suggestion |-> "Verify that the configuration set name is correct or create a new configuration set."]
      [] class = "ConfigurationSetSendingPausedError" ->
            [class |-> "ConfigurationSetSendingPausedError", name |-> "ConfigurationSetSendingPausedError",
             message |-> IF argument \in {Undefined, ""} THEN "Email sending is disabled for the configuration set." ELSE argument,
             statusCode |-> 400, code |-> "ConfigurationSetSendingPausedException",
             suggestion |-> "Enable email sending for the configuration set using UpdateConfigurationSetSendingEnabled."]
      [] class = "MailFromDomainNotVerifiedError" ->
            [class |-> "MailFromDomainNotVerifiedError", name |-> "MailFromDomainNotVerifiedError",
             message |-> "The message could not be sent because Amazon SES could not read the MX record required to use the specified MAIL FROM domain.",
             statusCode |-> 400, code |-> "MailFromDomainNotVerifiedException",
             suggestion |-> "Verify your MAIL FROM domain settings in the Amazon SES console."]
      [] class = "MessageRejectedError" ->
            [class |-> "MessageRejectedError", name |-> "MessageRejectedError",
             message |-> IF argument \in {Undefined, ""} THEN "The action failed, and the message could not be sent." ELSE argument,
             statusCode |-> 400, code |-> "MessageRejected",
             suggestion |-> "Check the error details for more information about what caused the error."]
      [] class = "InvalidParameterValueError" ->
            [class |-> "InvalidParameterValueError", name |-> "InvalidParameterValueError",
             message |-> IF argument \in {Undefined, ""} THEN "An invalid or out-of-range value was supplied for the input parameter." ELSE argument,
             statusCode |-> 400, code |-> "InvalidParameterValue",
             suggestion |-> "Check the parameter value and ensure it is within the valid range."]
      [] class = "MissingRequiredParameterError" ->
            [class |-> "MissingRequiredParameterError", name |-> "MissingRequiredParameterError",
             message |-> IF argument \in {Undefined, ""} THEN "A required parameter for the specified action is not supplied." ELSE argument,
             statusCode |-> 400, code |-> "MissingRequiredParameter",
             suggestion |-> "Provide all required parameters for the action."]
      [] class = "SignatureDoesNotMatchError" ->
            [class |-> "SignatureDoesNotMatchError", name |-> "SignatureDoesNotMatchError",
             message |-> "The request signature we calculated does not match the signature you provided.",
             statusCode |-> 403, code |-> "SignatureDoesNotMatch",
             suggestion |-> "Check your AWS Secret Access Key and signing method."]
      [] class = "AccessDeniedError" ->
            [class |-> "AccessDeniedError", name |-> "AccessDeniedError",
             message |-> IF argument \in {Undefined, ""} THEN "You do not have permission to perform this action." ELSE argument,
             statusCode |-> 403, code |-> "AccessDenied",
             suggestion |-> "Check your IAM policy and ensure you have the necessary permissions."]
      [] class = "InvalidClientTokenIdError" ->
            [class |-> "InvalidClientTokenIdError", name |-> "InvalidClientTokenIdError",
             message |-> "The security token included in the request is invalid.",
             statusCode |-> 403, code |-> "InvalidClientTokenId",
             suggestion |-> "Check your AWS Access Key ID and ensure it is correct."]
      [] class = "IncompleteSignatureError" ->
            [class |-> "IncompleteSignatureError", name |-> "IncompleteSignatureError",
             message |-> "The request signature does not conform to AWS standards.",
             statusCode |-> 403, code |-> "IncompleteSignature",
             suggestion |-> "Check your signature calculation and ensure all required headers are included."]
      [] class = "ThrottlingError" ->
            [class |-> "ThrottlingError", name |-> "ThrottlingError",
             message |-> "Rate exceeded. Please slow down your request rate.",
             statusCode |-> 429, code |-> "Throttling",
             suggestion |-> "Reduce your request rate or implement exponential backoff."]
      [] class = "ServiceUnavailableError" ->
            [class |-> "ServiceUnavailableError", name |-> "ServiceUnavailableError",
             message |-> "The service is temporarily unavailable.",
             statusCode |-> 503, code |-> "ServiceUnavailable",
             suggestion |-> "Retry the request after a short delay."]
      [] class = "InternalFailureError" ->
            [class |-> "InternalFailureError", name |-> "InternalFailureError",
             message |-> "An internal error occurred.",
             statusCode |-> 500, code |-> "InternalFailure",
             suggestion |-> "Retry the request. If the problem persists, contact AWS Support."]
      [] class = "NetworkError" ->
            [class |-> "NetworkError", name |-> "NetworkError",
             message |-> IF argument \in {Undefined, ""} THEN "An error occurred while sending the email. Please check your network connection and try again." ELSE argument,
             statusCode |-> 500, code |-> "network_error",
             suggestion |-> "Check your network connection and try again."]

----------------------------------------------------------------------------
(* The classifiers *)

(* variant: the status is passed on as given, without the default of 500 *)
createResendErrorKeepingStatus(code, message, statusCode) ==
    CASE code = "invalid_idempotency_key" -> newResendError("InvalidIdempotencyKeyError", Undefined)
      [] code = "validation_error" -> newResendError("ValidationError", message)
      [] code = "missing_api_key" -> newResendError("MissingApiKeyError", Undefined)
      [] code = "restricted_api_key" -> newResendError("RestrictedApiKeyError", Undefined)
      [] code = "invalid_api_key" -> newResendError("InvalidApiKeyError", Undefined)
      [] code = "not_found" -> newResendError("NotFoundError", Undefined)
      [] code = "method_not_allowed" -> newResendError("MethodNotAllowedError", Undefined)
      [] code = "invalid_idempotent_request" -> newResendError("InvalidIdempotentRequestError", Undefined)
      [] code = "concurrent_idempotent_requests" -> newResendError("ConcurrentIdempotentRequestsError", Undefined)
      [] code = "invalid_attachment" -> newResendError("InvalidAttachmentError", Undefined)
      [] code = "invalid_from_address" -> newResendError("InvalidFromAddressError", Undefined)
      [] code = "invalid_access" -> newResendError("InvalidAccessError", Undefined)
      [] code = "invalid_parameter" -> newResendError("InvalidParameterError", "parameter")
      [] code = "invalid_region" -> newResendError("InvalidRegionError", Undefined)
      [] code = "missing_required_field" -> newResendError("MissingRequiredFieldError", Undefined)
      [] code = "daily_quota_exceeded" -> newResendError("DailyQuotaExceededError", Undefined)
      [] code = "rate_limit_exceeded" -> newResendError("RateLimitExceededError", Undefined)
      [] code = "security_error" -> newResendError("SecurityError", message)
      [] code = "application_error" -> newResendError("ApplicationError", Undefined)
      [] code = "internal_server_error" -> newResendError("InternalServerError", Undefined)
      [] OTHER ->
            ResendError(
                IF message \in {Undefined, ""} THEN "Unknown error occurred" ELSE message,
                statusCode,
                code,
                "Please check the Resend documentation for more information.")

createResendError(code, message, statusCode) ==
    CASE code = "invalid_idempotency_key" -> newResendError("InvalidIdempotencyKeyError", Undefined)
      [] code = "validation_error" -> newResendError("ValidationError", message)
      [] code = "missing_api_key" -> newResendError("MissingApiKeyError", Undefined)
      [] code = "restricted_api_key" -> newResendError("RestrictedApiKeyError", Undefined)
      [] code = "invalid_api_key" -> newResendError("InvalidApiKeyError", Undefined)
      [] code = "not_found" -> newResendError("NotFoundError", Undefined)
      [] code = "method_not_allowed" -> newResendError("MethodNotAllowedError", Undefined)
      [] code = "invalid_idempotent_request" -> newResendError("InvalidIdempotentRequestError", Undefined)
      [] code = "concurrent_idempotent_requests" -> newResendError("ConcurrentIdempotentRequestsError", Undefined)
      [] code = "invalid_attachment" -> newResendError("InvalidAttachmentError", Undefined)
      [] code = "invalid_from_address" -> newResendError("InvalidFromAddressError", Undefined)
      [] code = "invalid_access" -> newResendError("InvalidAccessError", Undefined)
      [] code = "invalid_parameter" -> newResendError("InvalidParameterError", "parameter")
      [] code = "invalid_region" -> newResendError("InvalidRegionError", Undefined)
      [] code = "missing_required_field" -> newResendError("MissingRequiredFieldError", Undefined)
      [] code = "daily_quota_exceeded" -> newResendError("DailyQuotaExceededError", Undefined)
      [] code = "rate_limit_exceeded" -> newResendError("RateLimitExceededError", Undefined)
      [] code = "security_error" -> newResendError("SecurityError", message)
      [] code = "application_error" -> newResendError("ApplicationError", Undefined)
      [] code = "internal_server_error" -> newResendError("InternalServerError", Undefined)
      [] OTHER ->
            ResendError(
                IF message \in {Undefined, ""} THEN "Unknown error occurred" ELSE message,
                IF statusCode \in {UndefinedNumber, 0} THEN 500 ELSE statusCode,
                code,
                "Please check the Resend documentation for more information.")

(* variant: the generic error reports status 500 *)
createPlunkErrorGeneric500(statusCode, message) ==
    CASE statusCode = 400 -> newPlunkError("ValidationError", message)
      [] statusCode = 401 ->
            IF includes(message, "No authorization header")
            THEN newPlunkError("MissingAuthorizationHeaderError", Undefined)
            ELSE IF includes(message, "Incorrect Bearer token")
            THEN newPlunkError("IncorrectBearerTokenError", Undefined)
            ELSE IF includes(message, "Bearer")
            THEN newPlunkError("MalformedAuthorizationHeaderError", message)
            ELSE IF includes(message, "API key could not be parsed")
            THEN newPlunkError("InvalidApiKeyFormatError", message)
            ELSE IF includes(message, "secret key")
            THEN newPlunkError("InvalidSecretKeyError", message)
            ELSE IF includes(message, "public key")
            THEN newPlunkError("InvalidPublicKeyError", message)
            ELSE IF includes(message, "Incorrect Bearer token")
            THEN newPlunkError("IncorrectBearerTokenError", Undefined)
            ELSE IF includes(message, "Verify your domain")
            THEN newPlunkError("DomainNotVerifiedError", Undefined)
            ELSE IF includes(message, "Custom from address")
            THEN newPlunkError("InvalidFromDomainError", Undefined)
            ELSE newPlunkError("UnauthorizedError", message)
      [] statusCode = 403 -> newPlunkError("ForbiddenError", message)
      [] statusCode = 404 ->
            IF includes(message, "project")
            THEN newPlunkError("ProjectNotFoundError", Undefined)
            ELSE newPlunkError("NotFoundError", message)
      [] statusCode = 422 ->
            IF includes(message, "attachment")
            THEN newPlunkError("TooManyAttachmentsError", Undefined)
            ELSE newPlunkError("UnprocessableEntityError", message)
      [] statusCode = 429 -> newPlunkError("RateLimitExceededError", Undefined)
      [] statusCode = 500 -> newPlunkError("InternalServerError", Undefined)
      [] OTHER -> PlunkError(message, 500, Undefined, Undefined)

(* variant: 'Bearer' is looked for before 'Incorrect Bearer token' *)
createPlunkErrorBearerFirst(statusCode, message) ==
    CASE statusCode = 400 -> newPlunkError("ValidationError", message)
      [] statusCode = 401 ->
            IF includes(message, "No authorization header")
            THEN newPlunkError("MissingAuthorizationHeaderError", Undefined)
            ELSE IF includes(message, "Bearer")
            THEN newPlunkError("MalformedAuthorizationHeaderError", message)
            ELSE IF includes(message, "API key could not be parsed")
            THEN newPlunkError("InvalidApiKeyFormatError", message)
            ELSE IF includes(message, "secret key")
            THEN newPlunkError("InvalidSecretKeyError", message)
            ELSE IF includes(message, "public key")
            THEN newPlunkError("InvalidPublicKeyError", message)
            ELSE IF includes(message, "Incorrect Bearer token")
            THEN newPlunkError("IncorrectBearerTokenError", Undefined)
            ELSE IF includes(message, "Verify your domain")
            THEN newPlunkError("DomainNotVerifiedError", Undefined)
            ELSE IF includes(message, "Custom from address")
            THEN newPlunkError("InvalidFromDomainError", Undefined)
            ELSE newPlunkError("UnauthorizedError", message)
      [] statusCode = 403 -> newPlunkError("ForbiddenError", message)
      [] statusCode = 404 ->
            IF includes(message, "project")
            THEN newPlunkError("ProjectNotFoundError", Undefined)
            ELSE newPlunkError("NotFoundError", message)
      [] statusCode = 422 ->
            IF includes(message, "attachment")
            THEN newPlunkError("TooManyAttachmentsError", Undefined)
            ELSE newPlunkError("UnprocessableEntityError", message)
      [] statusCode = 429 -> newPlunkError("RateLimitExceededError", Undefined)
      [] statusCode = 500 -> newPlunkError("InternalServerError", Undefined)
      [] OTHER -> PlunkError(message, statusCode, Undefined, Undefined)

createPlunkError(statusCode, message) ==
    CASE statusCode = 400 -> newPlunkError("ValidationError", message)
      [] statusCode = 401 ->
            IF includes(message, "No authorization header")
            THEN newPlunkError("MissingAuthorizationHeaderError", Undefined)
            ELSE IF includes(message, "Incorrect Bearer token")
            THEN newPlunkError("IncorrectBearerTokenError", Undefined)
            ELSE IF includes(message, "Bearer")
            THEN newPlunkError("MalformedAuthorizationHeaderError", message)
            ELSE IF includes(message, "API key could not be parsed")
            THEN newPlunkError("InvalidApiKeyFormatError", message)
            ELSE IF includes(message, "secret key")
            THEN newPlunkError("InvalidSecretKeyError", message)
            ELSE IF includes(message, "public key")
            THEN newPlunkError("InvalidPublicKeyError", message)
            ELSE IF includes(message, "Incorrect Bearer token")
            THEN newPlunkError("IncorrectBearerTokenError", Undefined)
            ELSE IF includes(message, "Verify your domain")
            THEN newPlunkError("DomainNotVerifiedError", Undefined)
            ELSE IF includes(message, "Custom from address")
            THEN newPlunkError("InvalidFromDomainError", Undefined)
            ELSE newPlunkError("UnauthorizedError", message)
      [] statusCode = 403 -> newPlunkError("ForbiddenError", message)
      [] statusCode = 404 ->
            IF includes(message, "project")
            THEN newPlunkError("ProjectNotFoundError", Undefined)
            ELSE newPlunkError("NotFoundError", message)
      [] statusCode = 422 ->
            IF includes(message, "attachment")
            THEN newPlunkError("TooManyAttachmentsError", Undefined)
            ELSE newPlunkError("UnprocessableEntityError", message)
      [] statusCode = 429 -> newPlunkError("RateLimitExceededError", Undefined)
      [] statusCode = 500 -> newPlunkError("InternalServerError", Undefined)
      [] OTHER -> PlunkError(message, statusCode, Undefined, Undefined)

(* variant: only the code 'AccessDenied' has a case *)
createSesErrorWithoutAlias(code, message, statusCode) ==
    CASE code = "missing_credentials_config" -> newSesError("MissingCredentialsConfigError", Undefined)
      [] code = "AccountSendingPausedException" -> newSesError("AccountSendingPausedError", Undefined)
      [] code = "ConfigurationSetDoesNotExist" -> newSesError("ConfigurationSetDoesNotExistError", message)
      [] code = "ConfigurationSetSendingPausedException" ->
            newSesError("ConfigurationSetSendingPausedError", message)
      [] code = "MailFromDomainNotVerifiedException" -> newSesError("MailFromDomainNotVerifiedError", Undefined)
      [] code = "MessageRejected" -> newSesError("MessageRejectedError", message)
      [] code = "InvalidParameterValue" -> newSesError("InvalidParameterValueError", message)
      [] code = "MissingRequiredParameter" -> newSesError("MissingRequiredParameterError", message)
      [] code = "SignatureDoesNotMatch" -> newSesError("SignatureDoesNotMatchError", Undefined)
      [] code = "AccessDenied" -> newSesError("AccessDeniedError", message)
      [] code = "InvalidClientTokenId" -> newSesError("InvalidClientTokenIdError", Undefined)
      [] code = "IncompleteSignature" -> newSesError("IncompleteSignatureError", Undefined)
      [] code = "Throttling" -> newSesError("ThrottlingError", Undefined)
      [] code = "ServiceUnavailable" -> newSesError("ServiceUnavailableError", Undefined)
      [] code = "InternalFailure" -> newSesError("InternalFailureError", Undefined)
      [] code = "network_error" -> newSesError("NetworkError", message)
      [] OTHER ->
            SesError(
                IF message \in {Undefined, ""} THEN "Unknown error occurred" ELSE message,
                IF statusCode \in {UndefinedNumber, 0} THEN 500 ELSE statusCode,
                code,
                "Please check the AWS SES documentation for more information.")

createSesError(code, message, statusCode) ==
    CASE code = "missing_credentials_config" -> newSesError("MissingCredentialsConfigError", Undefined)
      [] code = "AccountSendingPausedException" -> newSesError("AccountSendingPausedError", Undefined)
      [] code = "ConfigurationSetDoesNotExist" -> newSesError("ConfigurationSetDoesNotExistError", message)
      [] code = "ConfigurationSetSendingPausedException" ->
            newSesError("ConfigurationSetSendingPausedError", message)
      [] code = "MailFromDomainNotVerifiedException" -> newSesError("MailFromDomainNotVerifiedError", Undefined)
      [] code = "MessageRejected" -> newSesError("MessageRejectedError", message)
      [] code = "InvalidParameterValue" -> newSesError("InvalidParameterValueError", message)
      [] code = "MissingRequiredParameter" -> newSesError("MissingRequiredParameterError", message)
      [] code = "SignatureDoesNotMatch" -> newSesError("SignatureDoesNotMatchError", Undefined)
      [] code \in {"AccessDenied", "AccessDeniedException"} -> newSesError("AccessDeniedError", message)
      [] code = "InvalidClientTokenId" -> newSesError("InvalidClientTokenIdError", Undefined)
      [] code = "IncompleteSignature" -> newSesError("IncompleteSignatureError", Undefined)
      [] code = "Throttling" -> newSesError("ThrottlingError", Undefined)
      [] code = "ServiceUnavailable" -> newSesError("ServiceUnavailableError", Undefined)
      [] code = "InternalFailure" -> newSesError("InternalFailureError", Undefined)
      [] code = "network_error" -> newSesError("NetworkError", message)
      [] OTHER ->
            SesError(
                IF message \in {Undefined, ""} THEN "Unknown error occurred" ELSE message,
                IF statusCode \in {UndefinedNumber, 0} THEN 500 ELSE statusCode,
                code,
                "Please check the AWS SES documentation for more information.")

----------------------------------------------------------------------------
(* The state machine *)

(* no classifier has been handed a signal *)
NoSignal == [transport |-> "none"]
Unclassified == [class |-> "none"]

NoEarlier == [signal |-> NoSignal, classified |-> Unclassified, between |-> FALSE]

ClassifyIdle ==
    /\ signal = NoSignal
    /\ classified = Unclassified
    /\ earlier = NoEarlier

(* sender() has not been called *)
NoSender == [id |-> "none"]

SenderIdle ==
    /\ senderParams = NoSender
    /\ this = NoSender
    /\ formatted = Undefined

(* no transport factory has been called *)
TransportIdle ==
    /\ config = [transport |-> "none"]
    /\ instance = [state |-> "none"]
    /\ cache = <<>>
    /\ calls = <<>>
    /\ sends = <<>>

Init ==
    /\ \E params \in DynmailParams : mail = dynmail(params)
    /\ pc = "idle"
    /\ sendParams = NoParams
    /\ invoked = <<>>
    /\ inner = Pending
    /\ outcome = Pending
    /\ flights = <<>>
    /\ ClassifyIdle
    /\ TransportIdle
    /\ SenderIdle

(* mail.send(p) is called: the inner send runs up to its return or throw *)
Call(p) ==
    /\ pc = "idle"
    /\ mail.kind = "registry"
    /\ sendParams' = p
    /\ LET s == send(mail, p) IN
         IF s.kind = "dispatch"
         THEN /\ invoked' = <<[provider |-> s.provider, params |-> s.params,
                              promise |-> Pending]>>
              /\ inner' = Pending
              /\ outcome' = Pending
              /\ pc' = "awaitProvider"
         ELSE /\ invoked' = <<>>
              /\ inner' = s.promise
              /\ outcome' = IF mail.safe THEN s.promise ELSE Pending
              /\ pc' = IF mail.safe THEN "settled" ELSE "awaitSend"
    /\ UNCHANGED <<mail, flights, outsideDispatch>>

(* variant: a failure Result is followed by a try on the next provider *)
ProviderSettlesThenFallsBack(b) ==
    /\ pc = "awaitProvider"
    /\ IF /\ b.kind = "fulfilled"
          /\ b.value.status = "failure"
          /\ invoked[Len(invoked)].provider < Len(mail.providerList)
       THEN /\ invoked' = Append([invoked EXCEPT ![Len(invoked)].promise = b],
                                 [provider |-> invoked[Len(invoked)].provider + 1,
                                  params |-> invoked[Len(invoked)].params,
                                  promise |-> Pending])
            /\ UNCHANGED <<inner, outcome, pc>>
       ELSE /\ invoked' = [invoked EXCEPT ![Len(invoked)].promise = b]
            /\ inner' = b
            /\ outcome' = IF mail.safe THEN b ELSE Pending
            /\ pc' = IF mail.safe THEN "settled" ELSE "awaitSend"
    /\ UNCHANGED <<mail, flights, sendParams, outsideDispatch>>

(* the promise of the provider's send settles; the inner send returned it *)
ProviderSettles(b) ==
    /\ pc = "awaitProvider"
    /\ invoked' = [invoked EXCEPT ![Len(invoked)].promise = b]
    /\ inner' = b
    /\ outcome' = IF mail.safe THEN b ELSE Pending
    /\ pc' = IF mail.safe THEN "settled" ELSE "awaitSend"
    /\ UNCHANGED <<mail, flights, sendParams, outsideDispatch>>

(* throwing mode: the wrapper resumes after `await send(sendParams)` *)
WrapperResumes ==
    /\ pc = "awaitSend"
    /\ ~mail.safe
    /\ outcome' = unwrap(inner)
    /\ pc' = "settled"
    /\ UNCHANGED <<mail, flights, sendParams, invoked, inner, outsideDispatch>>

(* the caller has observed the outcome; the next call may start *)
Return ==
    /\ pc = "settled"
    /\ pc' = "idle"
    /\ sendParams' = NoParams
    /\ invoked' = <<>>
    /\ inner' = Pending
    /\ outcome' = Pending
    /\ UNCHANGED <<mail, flights, outsideDispatch>>

Next ==
    \/ \E p \in DynmailSendMailParams : Call(p)
    \/ \E b \in ProviderOutcomes : ProviderSettles(b)
    \/ WrapperResumes
    \/ Return

Spec == Init /\ [][Next]_vars

----------------------------------------------------------------------------
(* Vocabulary of the properties *)

Dispatched == Len(invoked) = 1
HasId(list, id) == \E i \in 1..Len(list) : list[i].id = id
UniqueIds(list) == \A i, j \in 1..Len(list) : list[i].id = list[j].id => i = j
IsSuccess(promise) == promise.kind = "fulfilled" /\ promise.value.status = "success"
IsFailure(promise) == promise.kind = "fulfilled" /\ promise.value.status = "failure"
BothNonEmpty == Len(mail.providerList) > 0 /\ Len(mail.senderList) > 0
(* the id a call asks for: its hint, or 'default' *)
Requested(hint) == IF hint = Undefined THEN "default" ELSE hint
(* the registry of the other mode over the same lists *)
OtherMode == [mail EXCEPT !.safe = ~mail.safe]
(* what the resolved provider's promise settled to *)
ProviderPromise == IF Dispatched THEN invoked[1].promise ELSE Pending

----------------------------------------------------------------------------
(* C1: in safe mode send() never rejects: whatever the resolved provider's *)
(* send does, a settled safe-mode call is fulfilled with a Result whose    *)
(* status is success or failure.                                           *)
C1_SafeNeverRejects ==
    (mail.safe /\ pc = "settled") =>
        /\ outcome.kind = "fulfilled"
        /\ outcome.value.status \in {"success", "failure"}

(* C2: for the same lists, call and provider behaviour, the throwing       *)
(* registry fulfils with a success exactly when the safe registry returns  *)
(* a success, and otherwise rejects with the error the safe registry       *)
(* returns in result.error.                                                *)
C2_ModesAgree ==
    pc = "settled" =>
        LET other == mailSend(OtherMode, sendParams, ProviderPromise)
            safeOut == IF mail.safe THEN outcome ELSE other
            throwOut == IF mail.safe THEN other ELSE outcome
        IN  /\ IsSuccess(throwOut) <=> IsSuccess(safeOut)
            /\ ~IsSuccess(throwOut) =>
                  /\ throwOut.kind = "rejected"
                  /\ IsFailure(safeOut)
                  /\ throwOut.value = safeOut.value.error

(* C3: with a provider hint p and both lists non-empty, the call is        *)
(* dispatched to a provider whose id is p when one is registered, and to   *)
(* the first provider otherwise; it is dispatched in either case.          *)
C3_ProviderByHint ==
    (pc # "idle" /\ sendParams.provider # Undefined /\ BothNonEmpty) =>
        /\ Dispatched
        /\ IF HasId(mail.providerList, sendParams.provider)
           THEN /\ mail.providerList[invoked[1].provider].id = sendParams.provider
                /\ \A j \in 1..(invoked[1].provider - 1) :
                      mail.providerList[j].id # sendParams.provider
           ELSE invoked[1].provider = 1

C3_Witness ==
    /\ pc = "settled"
    /\ sendParams.provider = "missing-id"
    /\ Len(mail.providerList) = 2
    /\ mail.providerList[1].id # mail.providerList[2].id
    /\ Dispatched
    /\ invoked[1].provider = 1

(* C4: with a sender hint s and both lists non-empty, the provider is      *)
(* passed, as from, a registered sender whose id is s when one exists, and *)
(* the first sender otherwise.                                             *)
C4_SenderByHint ==
    (pc # "idle" /\ sendParams.from # Undefined /\ BothNonEmpty) =>
        /\ Dispatched
        /\ IF HasId(mail.senderList, sendParams.from)
           THEN /\ invoked[1].params.from.id = sendParams.from
                /\ invoked[1].params.from
                      = mail.senderList[CHOOSE i \in 1..Len(mail.senderList) :
                            /\ mail.senderList[i].id = sendParams.from
                            /\ \A j \in 1..(i - 1) :
                                  mail.senderList[j].id # sendParams.from]
           ELSE invoked[1].params.from = mail.senderList[1]

C4_Witness ==
    /\ pc = "settled"
    /\ sendParams.from = "a"
    /\ sendParams.provider = "default"
    /\ Len(mail.senderList) = 2
    /\ mail.senderList[1].id = "default"
    /\ mail.senderList[2].id = "a"
    /\ Dispatched
    /\ invoked[1].params.from = mail.senderList[2]

(* C5: with no provider hint and no from hint, the call goes to the        *)
(* provider whose id is 'default' wherever it sits, with the sender whose  *)
(* id is 'default' wherever it sits, and to the first entry of a list only *)
(* when that list holds no 'default'.                                      *)
C5_DefaultRouting ==
    (pc # "idle" /\ sendParams.provider = Undefined /\ sendParams.from = Undefined
        /\ BothNonEmpty) =>
        /\ Dispatched
        /\ IF HasId(mail.providerList, "default")
           THEN mail.providerList[invoked[1].provider].id = "default"
           ELSE invoked[1].provider = 1
        /\ IF HasId(mail.senderList, "default")
           THEN invoked[1].params.from.id = "default"
           ELSE invoked[1].params.from = mail.senderList[1]

C5_Witness ==
    /\ pc = "settled"
    /\ sendParams.provider = Undefined
    /\ sendParams.from = Undefined
    /\ Len(mail.providerList) = 2
    /\ mail.providerList[1].id = "a"
    /\ mail.providerList[2].id = "default"
    /\ Len(mail.senderList) = 1
    /\ mail.senderList[1].id = "a"
    /\ Dispatched
    /\ invoked[1].provider = 2
    /\ invoked[1].params.from = mail.senderList[1]

(* C6: a registry exists only for lists that are both non-empty and free  *)
(* of duplicate ids: every other configuration is rejected by dynmail(),   *)
(* so no send() call is ever in flight on such a configuration.            *)
C6_OnlyValidRegistries ==
    (mail.kind = "registry" /\ pc # "idle") =>
        /\ BothNonEmpty
        /\ UniqueIds(mail.providerList)
        /\ UniqueIds(mail.senderList)

(* C6, amended: dynmail() checks nothing at run time: it returns a         *)
(* registry for every pair of lists, and send() on a registry with an      *)
(* empty list or a duplicated id runs as on any other: it settles without  *)
(* calling a provider exactly when one of the lists is empty.              *)
C6_NoRuntimeValidation ==
    /\ mail.kind = "registry"
    /\ (pc = "settled"
        /\ ~(BothNonEmpty /\ UniqueIds(mail.providerList) /\ UniqueIds(mail.senderList)))
       => (Dispatched <=> BothNonEmpty)

C6_Witness ==
    /\ pc = "settled"
    /\ Len(mail.providerList) = 2
    /\ mail.providerList[1].id = mail.providerList[2].id
    /\ Len(mail.senderList) = 1
    /\ Dispatched
    /\ IsSuccess(outcome)

(* C7: on an empty provider list a call fails with ProviderNotFoundError   *)
(* whose message names the requested provider id; on a non-empty provider  *)
(* list and an empty sender list it fails with SenderNotFoundError naming  *)
(* the requested sender id; the error is the returned failure in safe mode *)
(* and the rejection in throwing mode.                                     *)
C7_NotFound ==
    (pc = "settled" /\ ~BothNonEmpty) =>
        LET error ==
              IF Len(mail.providerList) = 0
              THEN [name |-> "ProviderNotFoundError",
                    message |-> "Provider '" \o Requested(sendParams.provider)
                                \o "' not found."]
              ELSE [name |-> "SenderNotFoundError",
                    message |-> "Sender '" \o Requested(sendParams.from)
                                \o "' not found."]
        IN  outcome = IF mail.safe
                      THEN [kind |-> "fulfilled",
                            value |-> [status |-> "failure", error |-> error]]
                      ELSE [kind |-> "rejected", value |-> error]

C7_Witness ==
    /\ pc = "settled"
    /\ mail.safe
    /\ Len(mail.providerList) = 1
    /\ Len(mail.senderList) = 0
    /\ sendParams.from = "missing-id"
    /\ IsFailure(outcome)
    /\ outcome.value.error.message = "Sender 'missing-id' not found."

(* C8: when both lists are empty the call surfaces ProviderNotFoundError,  *)
(* never SenderNotFoundError, in both modes.                               *)
C8_ProviderFirst ==
    (pc = "settled" /\ Len(mail.providerList) = 0 /\ Len(mail.senderList) = 0) =>
        /\ outcome.kind = IF mail.safe THEN "fulfilled" ELSE "rejected"
        /\ (IF mail.safe THEN outcome.value.error ELSE outcome.value).name
              = "ProviderNotFoundError"

C8_Witness ==
    /\ pc = "settled"
    /\ Len(mail.providerList) = 0
    /\ Len(mail.senderList) = 0
    /\ ~mail.safe
    /\ outcome.kind = "rejected"
    /\ outcome.value.name = "ProviderNotFoundError"

(* C9: a dispatched call relays what its provider produced: in safe mode   *)
(* the outcome is the provider's promise itself (same Result), in throwing *)
(* mode a failure Result is thrown as exactly its error and a success      *)
(* Result is returned as it is.                                            *)
C9_PassThrough ==
    (pc = "settled" /\ Dispatched) =>
        IF mail.safe
        THEN outcome = invoked[1].promise
        ELSE /\ IsFailure(invoked[1].promise) =>
                  outcome = [kind |-> "rejected",
                             value |-> invoked[1].promise.value.error]
             /\ IsSuccess(invoked[1].promise) => outcome = invoked[1].promise

C9_Witness ==
    /\ pc = "settled"
    /\ Dispatched
    /\ ~mail.safe
    /\ IsFailure(invoked[1].promise)
    /\ outcome.kind = "rejected"
    /\ outcome.value.name = "RateLimitExceededError"

(* C10: the provider's send receives from = the resolved Sender, html =    *)
(* the caller's body, and to, subject, text, cc, bcc, replyTo and headers  *)
(* as the caller gave them; provider, body and the from hint do not        *)
(* appear among its fields.                                                *)
C10_TransportParams ==
    Dispatched =>
        LET sent == invoked[1].params IN
        /\ \E i \in 1..Len(mail.senderList) : sent.from = mail.senderList[i]
        /\ sent.html = sendParams.body
        /\ sent.to = sendParams.to
        /\ sent.subject = sendParams.subject
        /\ sent.text = sendParams.text
        /\ sent.cc = sendParams.cc
        /\ sent.bcc = sendParams.bcc
        /\ sent.replyTo = sendParams.replyTo
        /\ sent.headers = sendParams.headers
        /\ DOMAIN sent \cap {"provider", "body"} = {}
        /\ DOMAIN sent.from = {"id", "name", "email"}

C10_Witness ==
    /\ pc = "settled"
    /\ Dispatched
    /\ sendParams.cc = "cc@example.com"
    /\ invoked[1].params.html = "<p>HTML Body</p>"
    /\ invoked[1].params.bcc = "bcc1@example.com,bcc2@example.com"
    /\ invoked[1].params.from.name = "Test"

(* C11: a call made with attachments whose resolved provider supports     *)
(* attachments hands those attachments to that provider's send.            *)
C11_AttachmentsForwarded ==
    (Dispatched /\ sendParams.attachments # Undefined
        /\ mail.providerList[invoked[1].provider].options.supportsAttachments) =>
        /\ "attachments" \in DOMAIN invoked[1].params
        /\ invoked[1].params.attachments = sendParams.attachments

(* C12: a call that carries attachments and compiles (the lists are valid  *)
(* and the attachments field is typed as an array) is never dispatched to  *)
(* a provider whose options.supportsAttachments is false.                  *)
C12_AttachmentsRejected ==
    (Dispatched /\ sendParams.attachments # Undefined
        /\ ValidateList(mail.providerList) /\ ValidateList(mail.senderList)
        /\ CheckProvidersForAttachmentSupport(mail.providerList)) =>
        mail.providerList[invoked[1].provider].options.supportsAttachments

(* C13: a call makes a single attempt: once it has left the synchronous    *)
(* part it has invoked exactly one provider, the resolved one, when both   *)
(* lists are non-empty and none otherwise, and this stays so after that    *)
(* provider failed: no retry, no fallback to another provider.             *)
C13_SingleAttempt ==
    (pc # "idle") =>
        /\ Len(invoked) = IF BothNonEmpty THEN 1 ELSE 0
        /\ BothNonEmpty =>
              invoked[1].provider
                 = findOrFirst(mail.providerList, Requested(sendParams.provider))
        /\ (pc = "settled" /\ BothNonEmpty) => invoked[1].promise = inner

C13_Witness ==
    /\ pc = "settled"
    /\ Len(mail.providerList) = 2
    /\ Len(invoked) = 1
    /\ invoked[1].provider = 1
    /\ IsFailure(invoked[1].promise)

----------------------------------------------------------------------------
(* The classifiers as a state machine: a raw failure signal is drawn, and  *)
(* the classifier of its transport is applied to it.                       *)

(* the number of phrases a server message is put together from *)
MaxPhrases == 2

(* the case labels of createResendError *)
ResendKnownCodes ==
    {"invalid_idempotency_key", "validation_error", "missing_api_key",
     "restricted_api_key", "invalid_api_key", "not_found", "method_not_allowed",
     "invalid_idempotent_request", "concurrent_idempotent_requests",
     "invalid_attachment", "invalid_from_address", "invalid_access",
     "invalid_parameter", "invalid_region", "missing_required_field",
     "daily_quota_exceeded", "rate_limit_exceeded", "security_error",
     "application_error", "internal_server_error"}

(* codes the callers of createResendError pass that have no case *)
ResendOtherCodes == {"unknown_error", "network_error", "brand_new_code"}

(* the case labels of createSesError *)
SesKnownCodes ==
    {"missing_credentials_config", "AccountSendingPausedException",
     "ConfigurationSetDoesNotExist", "ConfigurationSetSendingPausedException",
     "MailFromDomainNotVerifiedException", "MessageRejected",
     "InvalidParameterValue", "MissingRequiredParameter",
     "SignatureDoesNotMatch", "AccessDenied", "AccessDeniedException",
     "InvalidClientTokenId", "IncompleteSignature", "Throttling",
     "ServiceUnavailable", "InternalFailure", "network_error"}

SesOtherCodes == {"unknown_error", "accessdenied", "AccessDeniedFault", "OptInRequired"}

(* the statuses createPlunkError has a case for, and two it has none for *)
PlunkStatuses == {400, 401, 403, 404, 422, 429, 500, 418, 503}

(* the phrases createPlunkError looks for, and the lower-case spelling of one *)
PlunkPhrases ==
    {"No authorization header", "Incorrect Bearer token", "Bearer",
     "API key could not be parsed", "secret key", "public key",
     "Verify your domain", "Custom from address", "incorrect bearer token",
     "project", "attachment", "Rate limit exceeded"}

RECURSIVE Join(_)
Join(phrases) ==
    IF Len(phrases) = 0 THEN ""
    ELSE IF Len(phrases) = 1 THEN phrases[1]
    ELSE phrases[1] \o " " \o Join(Tail(phrases))

PlunkMessages == {Join(q) : q \in SeqsUpTo(PlunkPhrases, MaxPhrases)}

Signals ==
    [transport : {"resend"}, code : ResendKnownCodes \cup ResendOtherCodes,
     message : {Undefined, "", "Rate limit exceeded"},
     statusCode : {UndefinedNumber, 0, 429, 500}]
    \cup
    [transport : {"plunk"}, code : {Undefined},
     message : PlunkMessages, statusCode : PlunkStatuses]
    \cup
    [transport : {"ses"}, code : SesKnownCodes \cup SesOtherCodes,
     message : {Undefined, "", "User is not authorized to perform ses:SendEmail"},
     statusCode : {UndefinedNumber, 0, 403, 500}]

(* no registry is involved in a classification *)
DispatchIdle ==
    /\ mail = [kind |-> "none"]
    /\ pc = "idle"
    /\ sendParams = NoParams
    /\ invoked = <<>>
    /\ inner = Pending
    /\ outcome = Pending
    /\ flights = <<>>

(* the calls made between two classifications of the same signal *)
Between ==
    { [transport |-> "resend", code |-> "rate_limit_exceeded",
       message |-> Undefined, statusCode |-> UndefinedNumber],
      [transport |-> "plunk", code |-> Undefined,
       message |-> "Bearer", statusCode |-> 401],
      [transport |-> "ses", code |-> "Throttling",
       message |-> Undefined, statusCode |-> UndefinedNumber] }

InitClassify ==
    /\ signal \in Signals
    /\ classified = Unclassified
    /\ earlier = NoEarlier
    /\ DispatchIdle
    /\ TransportIdle
    /\ SenderIdle

ClassifyResend ==
    /\ signal.transport = "resend"
    /\ classified = Unclassified
    /\ classified' = createResendError(signal.code, signal.message, signal.statusCode)
    /\ UNCHANGED <<signal, earlier, outsideClassify>>

(* variant: a classifier that keeps a module-level flag, which only its   *)
(* first call finds unset                                                  *)
ClassifyPlunkOnce ==
    /\ signal.transport = "plunk"
    /\ classified = Unclassified
    /\ classified' = IF earlier = NoEarlier
                     THEN createPlunkError(signal.statusCode, signal.message)
                     ELSE PlunkError(signal.message, signal.statusCode,
                                     Undefined, Undefined)
    /\ UNCHANGED <<signal, earlier, outsideClassify>>

ClassifyPlunk ==
    /\ signal.transport = "plunk"
    /\ classified = Unclassified
    /\ classified' = createPlunkError(signal.statusCode, signal.message)
    /\ UNCHANGED <<signal, earlier, outsideClassify>>

ClassifySes ==
    /\ signal.transport = "ses"
    /\ classified = Unclassified
    /\ classified' = createSesError(signal.code, signal.message, signal.statusCode)
    /\ UNCHANGED <<signal, earlier, outsideClassify>>

(* the first classification is remembered, and whether another signal was  *)
(* classified since                                                        *)
remember ==
    IF earlier = NoEarlier
    THEN [signal |-> signal, classified |-> classified, between |-> FALSE]
    ELSE [earlier EXCEPT !.between = @ \/ signal # earlier.signal]

(* a classifier is handed another signal *)
ClassifyBetween(next) ==
    /\ classified # Unclassified
    /\ earlier' = remember
    /\ signal' = next
    /\ classified' = Unclassified
    /\ UNCHANGED outsideClassify

(* the classifier is handed the first signal again *)
ClassifyAgain ==
    /\ classified # Unclassified
    /\ earlier' = remember
    /\ signal' = remember.signal
    /\ classified' = Unclassified
    /\ UNCHANGED outsideClassify

NextClassify ==
    \/ ClassifyResend
    \/ ClassifyPlunk
    \/ ClassifySes
    \/ \E next \in Between : ClassifyBetween(next)
    \/ ClassifyAgain

SpecClassify == InitClassify /\ [][NextClassify]_vars

(* the classifier of the named transport has returned *)
Classified(transport) ==
    /\ signal.transport = transport
    /\ classified # Unclassified

(* the class of the first entry of an ordered list of <<phrase, class>>    *)
(* whose phrase the message includes, or the fallback class                *)
FirstMatch(order, message, fallback) ==
    LET hits == {i \in 1..Len(order) : includes(message, order[i][1])} IN
    IF hits = {} THEN fallback
    ELSE order[CHOOSE i \in hits : \A j \in hits : i <= j][2]

(* the order of the checks of case 401 *)
Plunk401Order ==
    << <<"No authorization header", "MissingAuthorizationHeaderError">>,
       <<"Incorrect Bearer token", "IncorrectBearerTokenError">>,
       <<"Bearer", "MalformedAuthorizationHeaderError">>,
       <<"API key could not be parsed", "InvalidApiKeyFormatError">>,
       <<"secret key", "InvalidSecretKeyError">>,
       <<"public key", "InvalidPublicKeyError">>,
       <<"Verify your domain", "DomainNotVerifiedError">>,
       <<"Custom from address", "InvalidFromDomainError">> >>

(* the same checks with 'Incorrect Bearer token' in sixth place *)
Plunk401OrderBearerFirst ==
    << <<"No authorization header", "MissingAuthorizationHeaderError">>,
       <<"Bearer", "MalformedAuthorizationHeaderError">>,
       <<"API key could not be parsed", "InvalidApiKeyFormatError">>,
       <<"secret key", "InvalidSecretKeyError">>,
       <<"public key", "InvalidPublicKeyError">>,
       <<"Incorrect Bearer token", "IncorrectBearerTokenError">>,
       <<"Verify your domain", "DomainNotVerifiedError">>,
       <<"Custom from address", "InvalidFromDomainError">> >>

(* C17 as stated: for status 401 the first match wins in the order 'no     *)
(* authorization header', 'bearer', 'could not be parsed', 'secret key',   *)
(* 'public key', 'incorrect bearer token', 'verify your domain', 'custom   *)
(* from address', and a message matching none is the generic unauthorized  *)
(* variant.                                                                *)
C17_ClaimedOrder ==
    (Classified("plunk") /\ signal.statusCode = 401) =>
        classified.class
            = FirstMatch(Plunk401OrderBearerFirst, signal.message, "UnauthorizedError")

(* C17: for status 401 the first match wins in the order 'No authorization *)
(* header', 'Incorrect Bearer token', 'Bearer', 'API key could not be      *)
(* parsed', 'secret key', 'public key', 'Verify your domain', 'Custom from *)
(* address', compared case-sensitively; a message matching none is the     *)
(* generic unauthorized variant; every such error has status 401.          *)
C17_Precedence ==
    (Classified("plunk") /\ signal.statusCode = 401) =>
        /\ classified.class
              = FirstMatch(Plunk401Order, signal.message, "UnauthorizedError")
        /\ classified.statusCode = 401

C17_Witness ==
    /\ Classified("plunk")
    /\ signal.statusCode = 401
    /\ includes(signal.message, "Bearer")
    /\ includes(signal.message, "Incorrect Bearer token")
    /\ ~includes(signal.message, "No authorization header")
    /\ classified.class = "IncorrectBearerTokenError"

(* the fields every error value carries *)
ErrorFields == {"class", "name", "message", "statusCode", "code", "suggestion"}

(* C18: createResendError dispatches on the code alone: the class of the   *)
(* error it returns is the same whatever message and status come with the  *)
(* code; a code outside the known list yields the generic ResendError      *)
(* carrying that raw code, the given message and the given status, with    *)
(* status 500 (and the text 'Unknown error occurred') when none is given;  *)
(* and it returns a typed error for every input.                           *)
C18_GenericForUnknownCodes ==
    Classified("resend") =>
        /\ DOMAIN classified = ErrorFields
        /\ classified.name \in {"ResendError", "MissingApiKeyConfigError"}
        /\ classified.statusCode \in Nat
        /\ classified.class
              = createResendError(signal.code, Undefined, UndefinedNumber).class
        /\ (signal.code \in ResendKnownCodes) =>
              /\ classified.class # "ResendError"
              /\ classified.code = signal.code
        /\ (signal.code \notin ResendKnownCodes) =>
              /\ classified.class = "ResendError"
              /\ classified.code = signal.code
              /\ classified.message
                    = IF signal.message \in {Undefined, ""}
                      THEN "Unknown error occurred"
                      ELSE signal.message
              /\ classified.statusCode
                    = IF signal.statusCode \in {UndefinedNumber, 0}
                      THEN 500
                      ELSE signal.statusCode

C18_Witness ==
    /\ Classified("resend")
    /\ signal.code = "brand_new_code"
    /\ signal.message = "Rate limit exceeded"
    /\ signal.statusCode = UndefinedNumber
    /\ classified.class = "ResendError"
    /\ classified.statusCode = 500

(* C19: createSesError dispatches on the code: 'AccessDenied' and          *)
(* 'AccessDeniedException' both yield the same AccessDeniedError variant,  *)
(* and a code outside the case list yields the generic SesError carrying   *)
(* that code.                                                              *)
C19_AccessDeniedAlias ==
    Classified("ses") =>
        /\ classified.class
              = createSesError(signal.code, Undefined, UndefinedNumber).class
        /\ (signal.code \in {"AccessDenied", "AccessDeniedException"}) =>
              /\ classified = newSesError("AccessDeniedError", signal.message)
              /\ classified = createSesError("AccessDenied", signal.message,
                                             signal.statusCode)
        /\ (signal.code \in SesKnownCodes) => classified.class # "SesError"
        /\ (signal.code \notin SesKnownCodes) =>
              /\ classified.class = "SesError"
              /\ classified.code = signal.code

C19_Witness ==
    /\ Classified("ses")
    /\ signal.code = "AccessDeniedException"
    /\ classified.class = "AccessDeniedError"
    /\ classified.code = "AccessDenied"

----------------------------------------------------------------------------
(* The transport factories resend(), plunk() and ses()                     *)

(* A credential as the caller or the environment supplies it: absent, a    *)
(* string, or a function that returns the value or a promise of it; the    *)
(* first 'failures' invocations of the function throw, or reject.          *)
Absent == [type |-> "undefined"]
String(value) == [type |-> "string", value |-> value]
Function(async, failures) ==
    [type |-> "function", async |-> async, failures |-> failures]

(* what an explicit parameter, and an environment variable, may be *)
ExplicitSources ==
    {Absent, String(""), String("k0"), Function(FALSE, 0), Function(TRUE, 0)}
EnvSources == {Absent, String("env")}

(* the credentials a factory reads, in the order its send resolves them *)
Credentials(transport) ==
    CASE transport = "resend" -> <<"apiKey">>
      [] transport = "plunk" -> <<"baseUrl", "apiKey">>
      [] transport = "ses" -> <<"accessKeyId", "secretAccessKey", "region">>

(* the credentials a factory checks at construction: each has an           *)
(* environment variable; plunk's baseUrl has none and is optional          *)
Required(transport) ==
    CASE transport = "resend" -> {"apiKey"}
      [] transport = "plunk" -> {"apiKey"}
      [] transport = "ses" -> {"accessKeyId", "secretAccessKey", "region"}

Range(seq) == {seq[i] : i \in 1..Len(seq)}

(* the calls factory(params) under an environment *)
Configs ==
    UNION {
        [transport : {t},
         params : [Range(Credentials(t)) -> ExplicitSources],
         env : [Required(t) -> EnvSources]]
        : t \in {"resend", "plunk", "ses"}}

(* a ?? b *)
NullishCoalesce(a, b) == IF a.type = "undefined" THEN b ELSE a

(* !x for a credential: undefined and the empty string are falsy *)
Falsy(x) ==
    \/ x.type = "undefined"
    \/ x.type = "string" /\ x.value = ""

Threw(error) == [state |-> "threw", error |-> error]
Ready(transport, closure) ==
    [state |-> "ready", transport |-> transport, closure |-> closure]

resend(params, env) ==
    LET apiKey == NullishCoalesce(params.apiKey, env.apiKey)
    IN  IF Falsy(apiKey)
        THEN Threw(newResendError("MissingApiKeyConfigError", "resend"))
        ELSE Ready("resend", [apiKey |-> apiKey])

plunk(params, env) ==
    LET apiKey == NullishCoalesce(params.apiKey, env.apiKey)
    IN  IF Falsy(apiKey)
        THEN Threw(newPlunkError("MissingApiKeyConfigError", "plunk"))
        ELSE Ready("plunk", [baseUrl |-> params.baseUrl, apiKey |-> apiKey])

ses(params, env) ==
    LET accessKeyId == NullishCoalesce(params.accessKeyId, env.accessKeyId)
        secretAccessKey ==
            NullishCoalesce(params.secretAccessKey, env.secretAccessKey)
        region == NullishCoalesce(params.region, env.region)
    IN  IF Falsy(accessKeyId) \/ Falsy(secretAccessKey) \/ Falsy(region)
        THEN Threw(newSesError("MissingCredentialsConfigError", Undefined))
        ELSE Ready("ses", [accessKeyId |-> accessKeyId,
                           secretAccessKey |-> secretAccessKey,
                           region |-> region])

(* the factory of a configuration applied to it *)
construct(cfg) ==
    CASE cfg.transport = "resend" -> resend(cfg.params, cfg.env)
      [] cfg.transport = "plunk" -> plunk(cfg.params, cfg.env)
      [] cfg.transport = "ses" -> ses(cfg.params, cfg.env)

Unbuilt == [state |-> "unbuilt"]

(* the 'let resolved...' variables and the invocation counts of the      *)
(* credential functions, as the factory leaves them: declared, unset      *)
declared(inst, value) ==
    IF inst.state = "ready"
    THEN [c \in Range(Credentials(inst.transport)) |-> value]
    ELSE <<>>

InitConstruct ==
    /\ config \in Configs
    /\ instance = Unbuilt
    /\ cache = <<>>
    /\ calls = <<>>
    /\ sends = <<>>
    /\ DispatchIdle
    /\ ClassifyIdle
    /\ SenderIdle

ConstructResendEager ==
    /\ config.transport = "resend"
    /\ instance = Unbuilt
    /\ instance' = resend(config.params, config.env)
    /\ cache' = declared(instance', Undefined)
    /\ calls' = [c \in DOMAIN declared(instance', 0) |->
                   IF instance'.closure[c].type = "function" THEN 1 ELSE 0]
    /\ UNCHANGED <<config, sends, outsideTransport>>

ConstructResend ==
    /\ config.transport = "resend"
    /\ instance = Unbuilt
    /\ instance' = resend(config.params, config.env)
    /\ cache' = declared(instance', Undefined)
    /\ calls' = declared(instance', 0)
    /\ UNCHANGED <<config, sends, outsideTransport>>

ConstructPlunk ==
    /\ config.transport = "plunk"
    /\ instance = Unbuilt
    /\ instance' = plunk(config.params, config.env)
    /\ cache' = declared(instance', Undefined)
    /\ calls' = declared(instance', 0)
    /\ UNCHANGED <<config, sends, outsideTransport>>

ConstructSes ==
    /\ config.transport = "ses"
    /\ instance = Unbuilt
    /\ instance' = ses(config.params, config.env)
    /\ cache' = declared(instance', Undefined)
    /\ calls' = declared(instance', 0)
    /\ UNCHANGED <<config, sends, outsideTransport>>

NextConstruct ==
    \/ ConstructResend
    \/ ConstructPlunk
    \/ ConstructSes

SpecConstruct == InitConstruct /\ [][NextConstruct]_vars

(* available: a non-empty string or a function *)
Available(x) == ~Falsy(x)

(* the configuration error of a transport *)
ConfigError(transport) ==
    IF transport = "ses" THEN "MissingCredentialsConfigError"
    ELSE "MissingApiKeyConfigError"

(* C15: a factory throws its configuration error exactly when some         *)
(* required credential is available from neither the explicit parameter    *)
(* nor its environment variable; when each required credential is          *)
(* available from at least one of the two, construction succeeds.          *)
C15_ThrowsIffUnavailable ==
    (instance.state \in {"threw", "ready"}) =>
        LET missing == \E c \in Required(config.transport) :
                           /\ ~Available(config.params[c])
                           /\ ~Available(config.env[c])
        IN  /\ (instance.state = "threw") <=> missing
            /\ (instance.state = "threw") =>
                  instance.error.class = ConfigError(config.transport)

----------------------------------------------------------------------------
(* send of a transport instance                                            *)

(* the number of calls of one instance's send *)
MaxSends == 2

(* the attachment counts of a call that the transport tells apart: only    *)
(* plunk reads the count, against its limit of 5                           *)
AttachmentCounts(transport) ==
    IF transport = "plunk" THEN {0, 5, 6} ELSE {0}

(* what a failing credential function throws, or rejects with *)
Raised == "credential function failed"

DefaultUrl == "https://api.useplunk.com"

NetworkText ==
    "An error occurred while sending the email. Please check your network connection and try again."

UnknownText == "An unknown error occurred while sending the email."

(* what the n-th invocation of a credential function returns *)
KeyOf(n) == "k" \o ToString(n)

(* the instances send is called on: every credential a string or a         *)
(* function, the two halves of an ses key pair of one kind                 *)
SendConfigs ==
    { cfg \in Configs :
        /\ \A c \in DOMAIN cfg.env : cfg.env[c] = Absent
        /\ cfg.transport = "ses" =>
              cfg.params["accessKeyId"] = cfg.params["secretAccessKey"]
        /\ \A c \in Required(cfg.transport) :
              cfg.params[c] \in {String("k0"), Function(FALSE, 0), Function(TRUE, 0)}
        /\ \A c \in DOMAIN cfg.params : cfg.params[c] # String("") }

(* what fetch settles to: it throws, or it returns a response *)
FetchThrew == [kind |-> "threw"]
Response(status, body) ==
    [kind |-> "response", ok |-> status \in 200..299, status |-> status, body |-> body]

(* a JSON body, and a body response.json() rejects on *)
Json(value) == [json |-> TRUE, value |-> value]
NotJson == [json |-> FALSE]

(* an XML body as the sequence of its elements; '' has none *)
Element(tag, text) == [tag |-> tag, text |-> text]
Xml(elements) == [xml |-> elements]

Responses(transport) ==
    CASE transport = "resend" ->
            { FetchThrew,
              Response(200, Json([id |-> "1"])),
              Response(429, Json([message |-> "Rate limit exceeded"])),
              Response(429, Json([code |-> "rate_limit_exceeded",
                                  message |-> "Too many requests. Please slow down."])),
              Response(500, NotJson) }
      [] transport = "plunk" ->
            { FetchThrew,
              Response(200, Json([success |-> "true"])),
              Response(429, Json([message |-> "Rate limit exceeded"])),
              Response(500, NotJson) }
      [] transport = "ses" ->
            { FetchThrew,
              Response(200, Xml(<<Element("MessageId", "1")>>)),
              Response(403, Xml(<<Element("Type", "Sender"),
                                  Element("Code", "AccessDenied"),
                                  Element("Message", "You do not have permission to perform this action.")>>)),
              Response(500, Xml(<<>>)) }

AllResponses == Responses("resend") \cup Responses("plunk") \cup Responses("ses")

(* json?.field after response.json().catch(() => undefined) *)
field(body, f) ==
    IF body.json /\ f \in DOMAIN body.value THEN body.value[f] ELSE Undefined

(* a || b on strings *)
orElse(a, b) == IF a \in {Undefined, ""} THEN b ELSE a

(* xmlResponse.match(/<Tag>([^<]+)<\/Tag>/)?.[1] *)
match(xmlResponse, tag) ==
    LET elements == xmlResponse.xml
        hits == {i \in 1..Len(elements) :
                    elements[i].tag = tag /\ elements[i].text # ""}
    IN  IF hits = {} THEN Undefined
        ELSE elements[CHOOSE i \in hits : \A j \in hits : i <= j].text

parseAwsError(xmlResponse) ==
    [code |-> match(xmlResponse, "Code"), message |-> match(xmlResponse, "Message")]

(* variant: a 429 without a code is classified by its status *)
resendSettlesByStatus(r) ==
    IF r.kind = "threw"
    THEN Failure(createResendError("network_error", NetworkText, 500))
    ELSE IF r.ok THEN Success
    ELSE Failure(createResendError(
            orElse(field(r.body, "code"),
                   IF r.status = 429 THEN "rate_limit_exceeded" ELSE "unknown_error"),
            field(r.body, "message"), r.status))

(* the Result resend's send returns once fetch has settled to r *)
resendSettles(r) ==
    IF r.kind = "threw"
    THEN Failure(createResendError("network_error", NetworkText, 500))
    ELSE IF r.ok THEN Success
    ELSE Failure(createResendError(
            orElse(field(r.body, "code"), "unknown_error"),
            field(r.body, "message"), r.status))

plunkSettles(r) ==
    IF r.kind = "threw"
    THEN Failure(createPlunkError(500, NetworkText))
    ELSE IF r.ok THEN Success
    ELSE Failure(createPlunkError(
            r.status, orElse(field(r.body, "message"), UnknownText)))

sesSettles(r) ==
    IF r.kind = "threw"
    THEN Failure(createSesError("network_error", NetworkText, 500))
    ELSE IF r.ok THEN Success
    ELSE LET errorInfo == parseAwsError(r.body) IN
         Failure(createSesError(
            orElse(errorInfo.code, "unknown_error"), errorInfo.message, r.status))

settles(transport, r) ==
    CASE transport = "resend" -> resendSettles(r)
      [] transport = "plunk" -> plunkSettles(r)
      [] transport = "ses" -> sesSettles(r)

(* ses awaits resolveValue(...) for every credential, a string included;   *)
(* resend and plunk await only the promise a function returned             *)
alwaysAwaits(transport) == transport = "ses"

(* variant: the cached value is not looked at *)
needsResolvingAlways(c, name) == TRUE

(* if (!resolvedApiKey) *)
needsResolving(c, name) == c[name] \in {Undefined, ""}

(* a send as it runs: idle, suspended at the await of credential number    *)
(* 'at' whose promise resolves to 'value' (or rejects with it), suspended  *)
(* at the await of fetch, whose request carries the credentials in         *)
(* 'request', or done                                                      *)
IdleSend ==
    [pc |-> "idle", attachments |-> 0, at |-> 0, value |-> Undefined,
     rejects |-> FALSE, request |-> <<>>, response |-> [kind |-> "none"],
     result |-> Pending]

(* The synchronous run of send from credential number k on, over the       *)
(* cache c and the call counts n: up to the first await, or up to the      *)
(* throw of a credential function that is called synchronously.            *)
RECURSIVE resolveFrom(_, _, _)
resolveFrom(k, c, n) ==
    LET creds == Credentials(instance.transport)
        run == [cache |-> c, calls |-> n, pc |-> "awaitFetch", at |-> 0,
                value |-> Undefined, rejects |-> FALSE, request |-> <<>>,
                result |-> Pending]
    IN
    IF k > Len(creds)
    THEN [run EXCEPT !.request = c]
    ELSE
        LET name == creds[k]
            source == instance.closure[name]
        IN  IF ~needsResolving(c, name)
            THEN resolveFrom(k + 1, c, n)
            ELSE IF source.type = "undefined"
            THEN resolveFrom(k + 1, [c EXCEPT ![name] = DefaultUrl], n)
            ELSE IF source.type = "string"
            THEN IF alwaysAwaits(instance.transport)
                 THEN [run EXCEPT !.pc = "awaitCredential", !.at = k,
                                  !.value = source.value]
                 ELSE resolveFrom(k + 1, [c EXCEPT ![name] = source.value], n)
            ELSE
                LET called == [n EXCEPT ![name] = @ + 1]
                    fails == called[name] <= source.failures
                    result == IF fails THEN Raised ELSE KeyOf(called[name])
                IN  IF source.async \/ alwaysAwaits(instance.transport)
                    THEN [run EXCEPT !.calls = called, !.pc = "awaitCredential",
                                     !.at = k, !.value = result, !.rejects = fails]
                    ELSE IF fails
                    THEN [run EXCEPT !.calls = called, !.pc = "done",
                                     !.result = Rejected(Raised)]
                    ELSE resolveFrom(k + 1, [c EXCEPT ![name] = result], called)

InitSend ==
    /\ config \in SendConfigs
    /\ instance = Unbuilt
    /\ cache = <<>>
    /\ calls = <<>>
    /\ sends = [i \in 1..MaxSends |-> IdleSend]
    /\ DispatchIdle
    /\ ClassifyIdle
    /\ SenderIdle

SendCalledResolvingFirst(i, attachments) ==
    /\ instance.state = "ready"
    /\ attachments \in AttachmentCounts(instance.transport)
    /\ sends[i].pc = "idle"
    /\ \A j \in 1..(i - 1) : sends[j].pc # "idle"
    /\ LET r == resolveFrom(1, cache, calls) IN
       /\ cache' = r.cache
       /\ calls' = r.calls
       /\ IF instance.transport = "plunk" /\ attachments > 5
          THEN sends' = [sends EXCEPT ![i].pc = "done",
                                      ![i].attachments = attachments,
                                      ![i].result =
                                          Fulfilled(Failure(newPlunkError("TooManyAttachmentsError", Undefined)))]
          ELSE sends' = [sends EXCEPT ![i].pc = r.pc, ![i].at = r.at,
                                      ![i].attachments = attachments,
                                      ![i].value = r.value,
                                      ![i].rejects = r.rejects,
                                      ![i].request = r.request,
                                      ![i].result = r.result]
    /\ UNCHANGED <<config, instance, outsideTransport>>

(* provider.send(sendParams) is called and runs up to its first await *)
SendCalled(i, attachments) ==
    /\ instance.state = "ready"
    /\ attachments \in AttachmentCounts(instance.transport)
    /\ sends[i].pc = "idle"
    /\ \A j \in 1..(i - 1) : sends[j].pc # "idle"
    /\ IF instance.transport = "plunk" /\ attachments > 5
       THEN /\ sends' = [sends EXCEPT ![i].pc = "done",
                                      ![i].attachments = attachments,
                                      ![i].result =
                                          Fulfilled(Failure(newPlunkError("TooManyAttachmentsError", Undefined)))]
            /\ UNCHANGED <<cache, calls>>
       ELSE LET r == resolveFrom(1, cache, calls) IN
            /\ cache' = r.cache
            /\ calls' = r.calls
            /\ sends' = [sends EXCEPT ![i].pc = r.pc, ![i].at = r.at,
                                      ![i].attachments = attachments,
                                      ![i].value = r.value,
                                      ![i].rejects = r.rejects,
                                      ![i].request = r.request,
                                      ![i].result = r.result]
    /\ UNCHANGED <<config, instance, outsideTransport>>

(* variant: the awaited value is not stored before the send runs on *)
CredentialResolvesWithoutStoring(i) ==
    /\ instance.state = "ready"
    /\ sends[i].pc = "awaitCredential"
    /\ LET r == [resolveFrom(sends[i].at + 1, cache, calls)
                    EXCEPT !.request = IF @ = <<>> THEN @ ELSE cache]
       IN  /\ cache' = cache
           /\ calls' = r.calls
           /\ sends' = [sends EXCEPT ![i].pc = r.pc, ![i].at = r.at,
                                     ![i].value = r.value,
                                     ![i].rejects = r.rejects,
                                     ![i].request = r.request,
                                     ![i].result = r.result]
    /\ UNCHANGED <<config, instance, outsideTransport>>

(* variant: a rejected credential promise is turned into a failure Result *)
CredentialResolvesCatching(i) ==
    /\ instance.state = "ready"
    /\ sends[i].pc = "awaitCredential"
    /\ IF sends[i].rejects
       THEN /\ sends' = [sends EXCEPT ![i].pc = "done",
                                      ![i].result =
                                          Fulfilled(Failure(sends[i].value))]
            /\ UNCHANGED <<cache, calls>>
       ELSE LET name == Credentials(instance.transport)[sends[i].at]
                r == resolveFrom(sends[i].at + 1,
                                 [cache EXCEPT ![name] = sends[i].value], calls)
            IN  /\ cache' = r.cache
                /\ calls' = r.calls
                /\ sends' = [sends EXCEPT ![i].pc = r.pc, ![i].at = r.at,
                                          ![i].value = r.value,
                                          ![i].rejects = r.rejects,
                                          ![i].request = r.request,
                                          ![i].result = r.result]
    /\ UNCHANGED <<config, instance, outsideTransport>>

(* the awaited credential arrives: it is stored and the send runs on; or   *)
(* the awaited promise rejects, and so does the send                       *)
CredentialResolves(i) ==
    /\ instance.state = "ready"
    /\ sends[i].pc = "awaitCredential"
    /\ IF sends[i].rejects
       THEN /\ sends' = [sends EXCEPT ![i].pc = "done",
                                      ![i].result = Rejected(sends[i].value)]
            /\ UNCHANGED <<cache, calls>>
       ELSE LET name == Credentials(instance.transport)[sends[i].at]
                r == resolveFrom(sends[i].at + 1,
                                 [cache EXCEPT ![name] = sends[i].value], calls)
            IN  /\ cache' = r.cache
                /\ calls' = r.calls
                /\ sends' = [sends EXCEPT ![i].pc = r.pc, ![i].at = r.at,
                                          ![i].value = r.value,
                                          ![i].rejects = r.rejects,
                                          ![i].request = r.request,
                                          ![i].result = r.result]
    /\ UNCHANGED <<config, instance, outsideTransport>>

(* variant: send without its try/catch around fetch *)
FetchSettlesUncaught(i, r) ==
    /\ instance.state = "ready"
    /\ sends[i].pc = "awaitFetch"
    /\ r \in Responses(instance.transport)
    /\ sends' = [sends EXCEPT ![i].pc = "done", ![i].response = r,
                              ![i].result =
                                  IF r.kind = "threw"
                                  THEN Rejected("fetch failed")
                                  ELSE Fulfilled(settles(instance.transport, r))]
    /\ UNCHANGED <<config, instance, cache, calls, outsideTransport>>

(* fetch settles: the send returns its Result *)
FetchSettles(i, r) ==
    /\ instance.state = "ready"
    /\ sends[i].pc = "awaitFetch"
    /\ r \in Responses(instance.transport)
    /\ sends' = [sends EXCEPT ![i].pc = "done", ![i].response = r,
                              ![i].result = Fulfilled(settles(instance.transport, r))]
    /\ UNCHANGED <<config, instance, cache, calls, outsideTransport>>

NextSend ==
    \/ ConstructResend
    \/ ConstructPlunk
    \/ ConstructSes
    \/ \E i \in 1..MaxSends, n \in AttachmentCounts("plunk") : SendCalled(i, n)
    \/ \E i \in 1..MaxSends : CredentialResolves(i)
    \/ \E i \in 1..MaxSends, r \in AllResponses : FetchSettles(i, r)

SpecSend == InitSend /\ [][NextSend]_vars

(* a non-empty value of the credential is cached *)
Cached(name) == cache[name] \notin {Undefined, ""}

(* the sends that have been called *)
Called == {i \in DOMAIN sends : sends[i].pc # "idle"}

FunctionCredentials ==
    {c \in DOMAIN calls : instance.closure[c].type = "function"}

(* C14 as stated: every credential function is invoked at most once over   *)
(* the instance's lifetime, for any number of sends in any interleaving,   *)
(* concurrent first calls included.                                        *)
C14_AtMostOnce ==
    \A c \in DOMAIN calls : calls[c] <= 1

(* C14: a credential function is never invoked once a non-empty value of   *)
(* its credential is cached, and a send that is called when every          *)
(* credential is cached invokes nothing, leaves the cache alone and issues *)
(* its request with the cached values.  Each send invokes a function at    *)
(* most once, so a function is invoked at most as often as send was        *)
(* called; a synchronous function of resend or plunk is invoked at most    *)
(* once; a credential given as a string invokes nothing.                   *)
C14_CachedNotCalledAgain ==
    [][ /\ \A c \in DOMAIN calls : Cached(c) => calls'[c] = calls[c]
        /\ \A i \in DOMAIN sends :
              (/\ sends[i].pc = "idle"
               /\ sends'[i].pc # "idle"
               /\ \A c \in DOMAIN cache : Cached(c)) =>
                  /\ calls' = calls
                  /\ cache' = cache
                  /\ \/ sends'[i].pc = "awaitFetch" /\ sends'[i].request = cache
                     \/ sends'[i].pc = "done" /\ instance.transport = "plunk"
        /\ \A c \in DOMAIN calls :
              /\ calls'[c] <= Cardinality({i \in DOMAIN sends : sends'[i].pc # "idle"})
              /\ (instance.closure[c].type # "function") => calls'[c] = 0
              /\ (/\ instance.closure[c].type = "function"
                  /\ ~instance.closure[c].async
                  /\ ~alwaysAwaits(instance.transport)) => calls'[c] <= 1
      ]_vars

C14_Witness ==
    /\ Called = DOMAIN sends
    /\ \E c \in FunctionCredentials :
          /\ instance.closure[c].async
          /\ calls[c] = 1
          /\ \A i \in DOMAIN sends :
                /\ sends[i].pc = "done"
                /\ sends[i].request # <<>>
                /\ sends[i].request[c] = KeyOf(1)

(* the sends whose fetch threw, and whose fetch returned a response *)
Done == {i \in DOMAIN sends : sends[i].pc = "done"}
ThrewAt(i) == i \in Done /\ sends[i].response.kind = "threw"
RespondedAt(i) == i \in Done /\ sends[i].response.kind = "response"

(* the errors a transport produces for the responses a server may return:  *)
(* every status with every body the classifiers tell apart                 *)
ServerErrors(transport) ==
    CASE transport = "resend" ->
            { resendSettles(Response(status, body)).error :
                status \in {400, 401, 403, 404, 422, 429, 500, 503},
                body \in {NotJson} \cup
                    { Json([code |-> c, message |-> "Rate limit exceeded"]) :
                        c \in ResendKnownCodes \cup {"brand_new_code", ""} } }
      [] transport = "plunk" ->
            { plunkSettles(Response(status, body)).error :
                status \in PlunkStatuses,
                body \in {NotJson} \cup
                    { Json([message |-> m]) : m \in PlunkPhrases \cup {""} } }
      [] transport = "ses" ->
            { sesSettles(Response(status, body)).error :
                status \in {400, 403, 429, 500, 503},
                body \in {Xml(<<>>)} \cup
                    { Xml(<<Element("Code", c), Element("Message", "Rate exceeded")>>) :
                        c \in (SesKnownCodes \ {"network_error"}) \cup {"OptInRequired"} } }

(* C16: when the HTTP request throws, send returns a failure whose error   *)
(* differs in class or in code from every error the transport produces for *)
(* a response of the server, and whose message is the fixed network text.  *)
C16_NetworkErrorDistinct ==
    \A i \in DOMAIN sends :
        ThrewAt(i) =>
            /\ sends[i].result.kind = "fulfilled"
            /\ sends[i].result.value.status = "failure"
            /\ sends[i].result.value.error.message = NetworkText
            /\ \A e \in ServerErrors(instance.transport) :
                  \/ e.class # sends[i].result.value.error.class
                  \/ e.code # sends[i].result.value.error.code

(* the server answered HTTP 429 with the JSON body {message: 'Rate limit   *)
(* exceeded'}                                                              *)
RateLimited(i) ==
    /\ RespondedAt(i)
    /\ sends[i].response = Response(429, Json([message |-> "Rate limit exceeded"]))

(* a registry whose only provider is the instance, and a mail for it *)
RegistryOf(safe) ==
    dynmail([providers |-> <<Provider(Undefined, TRUE)>>,
             senders |-> <<Sender(Undefined, Undefined, "default@example.com")>>,
             safe |-> safe])

Mail ==
    WithHints(CHOOSE m \in Messages : m.attachments = Undefined, Undefined, Undefined)

(* the registry hands on the error of send i: as result.error in safe      *)
(* mode, as the thrown value in throwing mode                              *)
Exposed(i) ==
    LET error == sends[i].result.value.error IN
    /\ mailSend(RegistryOf(TRUE), Mail, sends[i].result) = Fulfilled(Failure(error))
    /\ mailSend(RegistryOf(FALSE), Mail, sends[i].result) = Rejected(error)

(* C20 as stated: for plunk and resend, a 429 with the body {message:      *)
(* 'Rate limit exceeded'} yields an error with statusCode 429 of the       *)
(* transport's rate-limit kind, which a registry exposes as result.error   *)
(* in safe mode and as the thrown value in throwing mode.                  *)
C20_RateLimitKind ==
    \A i \in DOMAIN sends :
        RateLimited(i) =>
            /\ sends[i].result.value.status = "failure"
            /\ sends[i].result.value.error.statusCode = 429
            /\ sends[i].result.value.error.class = "RateLimitExceededError"
            /\ Exposed(i)

(* C20: a 429 with the body {message: 'Rate limit exceeded'} yields an     *)
(* error with statusCode 429 that a registry exposes unchanged in both     *)
(* modes; for plunk it is RateLimitExceededError, for resend, whose        *)
(* classifier looks at the body's code only, it is the generic ResendError *)
(* with code 'unknown_error' and the body's message; resend yields its     *)
(* RateLimitExceededError when the body carries code 'rate_limit_exceeded'. *)
C20_RateLimitByTransport ==
    \A i \in DOMAIN sends :
        /\ RateLimited(i) =>
              /\ sends[i].result.value.status = "failure"
              /\ sends[i].result.value.error.statusCode = 429
              /\ Exposed(i)
              /\ (instance.transport = "plunk") =>
                    /\ sends[i].result.value.error.class = "RateLimitExceededError"
                    /\ sends[i].result.value.error.code = "rate_limit_exceeded"
              /\ (instance.transport = "resend") =>
                    /\ sends[i].result.value.error.class = "ResendError"
                    /\ sends[i].result.value.error.code = "unknown_error"
                    /\ sends[i].result.value.error.message = "Rate limit exceeded"
        /\ (/\ RespondedAt(i)
            /\ instance.transport = "resend"
            /\ sends[i].response.status = 429
            /\ field(sends[i].response.body, "code") = "rate_limit_exceeded") =>
              /\ sends[i].result.value.error.class = "RateLimitExceededError"
              /\ sends[i].result.value.error.statusCode = 429
              /\ Exposed(i)

C20_Witness ==
    \E i \in DOMAIN sends :
        /\ RateLimited(i)
        /\ instance.transport = "resend"
        /\ sends[i].result.value.error.statusCode = 429
        /\ sends[i].result.value.error.code = "unknown_error"

----------------------------------------------------------------------------
(* Properties of the error values and of the classifiers as functions      *)

(* some classifier has returned *)
AnyClassified == classified # Unclassified

(* C21: every error value a classifier returns, the generic variants       *)
(* included, carries a defined message, statusCode, code and suggestion.   *)
C21_AllFieldsDefined ==
    AnyClassified =>
        /\ classified.message # Undefined
        /\ classified.statusCode # UndefinedNumber
        /\ classified.code # Undefined
        /\ classified.suggestion # Undefined

(* the first signal has been classified again *)
ClassifiedAgain ==
    /\ AnyClassified
    /\ earlier # NoEarlier
    /\ signal = earlier.signal

(* C22: classifying the same raw signal twice yields two errors with equal *)
(* code, statusCode and message, whatever was classified in between.       *)
C22_Deterministic ==
    ClassifiedAgain =>
        /\ classified.code = earlier.classified.code
        /\ classified.statusCode = earlier.classified.statusCode
        /\ classified.message = earlier.classified.message

C22_Witness ==
    /\ ClassifiedAgain
    /\ earlier.between
    /\ signal.transport = "plunk"
    /\ signal.statusCode = 401
    /\ classified = earlier.classified

----------------------------------------------------------------------------
(* sender(params) and Sender.toString()                                    *)

(* SenderConstructorParams: id and name are optional *)
SenderConstructorParams ==
    [id : {Undefined, "default", "support"},
     name : {Undefined, "", " ", "Support Team", "Ann \"The Boss\" Lee"},
     email : {"support@example.com", "a@b.co", "default@example.com", "x"}]

(* variant: the name is not put in quotes *)
toStringUnquoted(self) ==
    IF self.name \in {Undefined, ""} THEN self.email
    ELSE self.name \o " <" \o self.email \o ">"

toString(self) ==
    IF self.name \in {Undefined, ""} THEN self.email
    ELSE "\"" \o self.name \o "\" <" \o self.email \o ">"

InitSender ==
    /\ senderParams \in SenderConstructorParams
    /\ this = NoSender
    /\ formatted = Undefined
    /\ DispatchIdle
    /\ ClassifyIdle
    /\ TransportIdle

(* sender(params): return new Sender(params) *)
sender ==
    /\ this = NoSender
    /\ this' = Sender(senderParams.id, senderParams.name, senderParams.email)
    /\ UNCHANGED <<senderParams, formatted, outsideSender>>

SenderToString ==
    /\ this # NoSender
    /\ formatted = Undefined
    /\ formatted' = toString(this)
    /\ UNCHANGED <<senderParams, this, outsideSender>>

NextSender ==
    \/ sender
    \/ SenderToString

SpecSender == InitSender /\ [][NextSender]_vars

(* C23: toString() returns the email alone when the name is absent or      *)
(* empty, and otherwise the name in double quotes, one space, and the      *)
(* email in angle brackets; a Sender built without an id has id 'default'. *)
C23_SenderFormat ==
    /\ (this # NoSender) =>
          /\ this.id = IF senderParams.id = Undefined THEN "default" ELSE senderParams.id
          /\ this.name = senderParams.name
          /\ this.email = senderParams.email
    /\ (formatted # Undefined) =>
          LET name == senderParams.name
              email == senderParams.email
              n == Len(name)
          IN  IF name \in {Undefined, ""}
              THEN formatted = email
              ELSE /\ Len(formatted) = n + Len(email) + 5
                   /\ SubSeq(formatted, 1, 1) = "\""
                   /\ SubSeq(formatted, 2, n + 1) = name
                   /\ SubSeq(formatted, n + 2, n + 4) = "\" <"
                   /\ SubSeq(formatted, n + 5, n + 4 + Len(email)) = email
                   /\ SubSeq(formatted, Len(formatted), Len(formatted)) = ">"

C23_Witness ==
    /\ senderParams.id = Undefined
    /\ this.id = "default"
    /\ senderParams.name = "Support Team"
    /\ formatted = "\"Support Team\" <support@example.com>"

(* the statuses createPlunkError has a case for *)
PlunkKnownStatuses == {400, 401, 403, 404, 422, 429, 500}

(* C24: createPlunkError dispatches first on the status: 400 gives         *)
(* ValidationError with the message, 403 ForbiddenError, 404               *)
(* ProjectNotFoundError iff the message contains 'project' and else        *)
(* NotFoundError, 422 TooManyAttachmentsError iff the message contains     *)
(* 'attachment' and else UnprocessableEntityError, 429                     *)
(* RateLimitExceededError, 500 InternalServerError; every other status     *)
(* gives the generic PlunkError with the raw message and status.           *)
C24_StatusDispatch ==
    Classified("plunk") =>
        LET status == signal.statusCode
            message == signal.message
        IN  /\ (status = 400) =>
                  /\ classified.class = "ValidationError"
                  /\ classified.message = message
            /\ (status = 403) => classified.class = "ForbiddenError"
            /\ (status = 404) =>
                  /\ classified.class \in {"ProjectNotFoundError", "NotFoundError"}
                  /\ (classified.class = "ProjectNotFoundError")
                        <=> includes(message, "project")
            /\ (status = 422) =>
                  /\ classified.class \in {"TooManyAttachmentsError",
                                           "UnprocessableEntityError"}
                  /\ (classified.class = "TooManyAttachmentsError")
                        <=> includes(message, "attachment")
            /\ (status = 429) => classified.class = "RateLimitExceededError"
            /\ (status = 500) => classified.class = "InternalServerError"
            /\ (status \in PlunkKnownStatuses) =>
                  /\ classified.class # "PlunkError"
                  /\ classified.statusCode = status
            /\ (status \notin PlunkKnownStatuses) =>
                  /\ classified.class = "PlunkError"
                  /\ classified.message = message
                  /\ classified.statusCode = status

C24_Witness ==
    /\ Classified("plunk")
    /\ signal.statusCode = 418
    /\ includes(signal.message, "project")
    /\ includes(signal.message, "Bearer")
    /\ classified.class = "PlunkError"
    /\ classified.statusCode = 418

----------------------------------------------------------------------------
(* Lazy credential resolution                                              *)

(* the sends that got past plunk's attachment check *)
Admitted == {i \in Called : sends[i].attachments <= 5}

(* C25 as stated: construction invokes no credential function, and the     *)
(* functions are first invoked during the first send: nothing is invoked   *)
(* before send is called, and once the first send has returned every       *)
(* credential function has been invoked.                                   *)
C25_FirstSendInvokes ==
    /\ Called = {} => \A c \in DOMAIN calls : calls[c] = 0
    /\ 1 \in Done => \A c \in FunctionCredentials : calls[c] >= 1

(* C25: constructing a provider invokes no credential function.  A         *)
(* function is invoked only in a step of a send that got past plunk's      *)
(* attachment check; the first such send invokes the function of the       *)
(* first credential in its synchronous part (resend, plunk), and once any  *)
(* such send has returned a Result every credential function has been      *)
(* invoked.  A plunk send rejected for its attachments invokes nothing.    *)
C25_LazyResolution ==
    [][ /\ instance = Unbuilt => \A c \in DOMAIN calls' : calls'[c] = 0
        /\ \A c \in DOMAIN calls :
              calls'[c] > calls[c] =>
                  \E i \in DOMAIN sends :
                      /\ sends'[i] # sends[i]
                      /\ sends[i].pc \in {"idle", "awaitCredential"}
                      /\ sends'[i].attachments <= 5
        /\ \A i \in DOMAIN sends :
              (/\ sends[i].pc = "idle"
               /\ sends'[i].pc # "idle"
               /\ sends'[i].attachments <= 5
               /\ Admitted = {}) =>
                  LET first == Credentials(instance.transport)[1] IN
                  (/\ instance.closure[first].type = "function"
                   /\ ~alwaysAwaits(instance.transport)) =>
                      /\ calls[first] = 0
                      /\ calls'[first] = 1
        /\ \A i \in DOMAIN sends :
              (sends'[i].pc = "done" /\ sends'[i].attachments > 5) =>
                  (sends[i].pc = "idle" => calls' = calls /\ cache' = cache)
        /\ \A i \in DOMAIN sends :
              (/\ sends'[i].pc = "done"
               /\ sends'[i].attachments <= 5
               /\ sends'[i].result.kind = "fulfilled") =>
                  \A c \in FunctionCredentials : calls'[c] >= 1
      ]_vars

(* a send rejected for its attachments came first, and the second send     *)
(* invoked every credential function, once                                 *)
C25_Witness ==
    /\ instance.state = "ready"
    /\ FunctionCredentials = DOMAIN calls
    /\ sends[1].pc = "done" /\ sends[1].attachments > 5
    /\ sends[2].pc = "done" /\ sends[2].attachments <= 5
    /\ \A c \in FunctionCredentials : calls[c] = 1

----------------------------------------------------------------------------
(* Plunk's attachment limit                                                *)

TooManyAttachments ==
    Fulfilled(Failure(newPlunkError("TooManyAttachmentsError", Undefined)))

(* C26: a plunk send with more than 5 attachments returns the failure      *)
(* TooManyAttachmentsError in its call step: no credential function is     *)
(* invoked, the cache is unchanged and no request is ever issued; a send   *)
(* with 5 attachments or fewer is not rejected by the check.               *)
C26_AttachmentCheckFirst ==
    [][ \A i \in DOMAIN sends :
          (/\ instance.state = "ready"
           /\ instance.transport = "plunk"
           /\ sends[i].pc = "idle"
           /\ sends'[i].pc # "idle") =>
              IF sends'[i].attachments > 5
              THEN /\ sends'[i].pc = "done"
                   /\ sends'[i].result = TooManyAttachments
                   /\ sends'[i].request = <<>>
                   /\ sends'[i].response.kind = "none"
                   /\ calls' = calls
                   /\ cache' = cache
              ELSE sends'[i].result # TooManyAttachments
      ]_vars

(* a send with 6 attachments was rejected without invoking the credential  *)
(* functions, and a send with 5 attachments then went through              *)
C26_Witness ==
    /\ instance.state = "ready"
    /\ instance.transport = "plunk"
    /\ FunctionCredentials = DOMAIN calls
    /\ sends[1].attachments = 6
    /\ sends[1].result = TooManyAttachments
    /\ sends[2].attachments = 5
    /\ sends[2].result = Fulfilled(Success)
    /\ \A c \in DOMAIN calls : calls[c] = 1 /\ cache[c] = KeyOf(1)

----------------------------------------------------------------------------
(* The Result of a send whose request was issued                           *)

(* the sends that resolved their credentials and issued the request *)
Issued == {i \in DOMAIN sends : sends[i].request # <<>>}

(* C27: once its credentials have resolved, a send of every transport      *)
(* resolves to a Result and never rejects: it is pending while fetch is    *)
(* awaited, {status: 'success'} without an error exactly when the response *)
(* is ok, and {status: 'failure', error} with an error of the transport    *)
(* for every other response, a body that cannot be parsed included, and    *)
(* for a request that throws.                                              *)
C27_AlwaysResult ==
    \A i \in Issued :
        LET ok == RespondedAt(i) /\ sends[i].response.ok
        IN  /\ sends[i].pc \in {"awaitFetch", "done"}
            /\ sends[i].pc = "awaitFetch" => sends[i].result = Pending
            /\ sends[i].pc = "done" =>
                  /\ ThrewAt(i) \/ RespondedAt(i)
                  /\ sends[i].result.kind = "fulfilled"
                  /\ ok <=> sends[i].result.value = Success
                  /\ ok => "error" \notin DOMAIN sends[i].result.value
                  /\ ~ok =>
                        /\ sends[i].result.value.status = "failure"
                        /\ DOMAIN sends[i].result.value.error = ErrorFields
                        /\ sends[i].result.value.error.class \notin {"none", Undefined}

(* one send got a 500 whose body could not be parsed, another one's fetch  *)
(* threw, and both returned a failure                                      *)
C27_Witness ==
    \E i, j \in Issued :
        /\ RespondedAt(i)
        /\ sends[i].response.status = 500
        /\ sends[i].result.value.status = "failure"
        /\ ThrewAt(j)
        /\ sends[j].result.value.status = "failure"

----------------------------------------------------------------------------
(* Credentials are resolved before the request                             *)

(* C29: no transport issues its request before every credential the        *)
(* request uses is resolved into the cache of the instance: a request      *)
(* carries a non-empty value of every credential of the transport, each    *)
(* of them cached, and a send that has issued no request has no response,  *)
(* in every interleaving of the sends of one instance.                     *)
C29_ResolvedBeforeRequest ==
    \A i \in DOMAIN sends :
        IF i \in Issued
        THEN /\ DOMAIN sends[i].request = Range(Credentials(instance.transport))
             /\ \A c \in DOMAIN sends[i].request :
                   /\ sends[i].request[c] \notin {Undefined, ""}
                   /\ Cached(c)
        ELSE /\ sends[i].response.kind = "none"
             /\ sends[i].pc # "awaitFetch"

(* the second send was called while the first was awaiting a credential    *)
(* function, and issued its request while the first is still waiting       *)
C29_Witness ==
    /\ instance.state = "ready"
    /\ sends[1].pc = "awaitCredential"
    /\ instance.closure[Credentials(instance.transport)[sends[1].at]].type = "function"
    /\ 2 \in Issued
    /\ sends[2].pc = "awaitFetch"

----------------------------------------------------------------------------
(* Credential functions that fail                                          *)

(* the instances of SendConfigs with one of their credential functions     *)
(* throwing, or rejecting, at its first invocation                         *)
FailingConfigs ==
    UNION { { [cfg EXCEPT !.params[c].failures = 1] :
                c \in {d \in DOMAIN cfg.params : cfg.params[d].type = "function"} } :
            cfg \in SendConfigs }

InitSendFailing ==
    /\ config \in FailingConfigs
    /\ instance = Unbuilt
    /\ cache = <<>>
    /\ calls = <<>>
    /\ sends = [i \in 1..MaxSends |-> IdleSend]
    /\ DispatchIdle
    /\ ClassifyIdle
    /\ SenderIdle

SpecSendFailing == InitSendFailing /\ [][NextSend]_vars

(* the credentials whose function fails *)
Failing ==
    {c \in FunctionCredentials : instance.closure[c].failures > 0}

(* the sends that rejected *)
RejectedSends == {i \in DOMAIN sends : sends[i].result.kind = "rejected"}

(* C30 as stated: a send in which a credential function throws or rejects  *)
(* rejects with the raised value, issues no request, and when it has       *)
(* rejected the cache entry of that credential is unset.                   *)
C30_StaysUnset ==
    [][ \A i \in DOMAIN sends :
          (i \notin RejectedSends /\ sends'[i].result.kind = "rejected") =>
              /\ sends'[i].result = Rejected(Raised)
              /\ sends'[i].request = <<>>
              /\ \A c \in Failing : cache'[c] \in {Undefined, ""}
      ]_vars

(* C30: a send in which a credential function throws, or returns a promise *)
(* that rejects, rejects with the raised value: at once when the function  *)
(* throws in resend or plunk, when the awaited promise settles otherwise.  *)
(* The send issues no request, gets no response, and does not write the    *)
(* cache entry of that credential; a send that is called while the entry   *)
(* of the first credential is unset invokes its function again.            *)
C30_RejectsAndRetries ==
    [][ \A i \in DOMAIN sends :
          /\ (/\ sends[i].pc = "awaitCredential"
               /\ sends[i].rejects
               /\ sends'[i] # sends[i]) =>
                  /\ sends'[i].pc = "done"
                  /\ sends'[i].result = Rejected(Raised)
                  /\ sends'[i].request = <<>>
                  /\ sends'[i].response.kind = "none"
                  /\ cache' = cache
                  /\ calls' = calls
          /\ \A c \in Failing :
                (/\ calls[c] < instance.closure[c].failures
                 /\ calls'[c] > calls[c]
                 /\ sends'[i] # sends[i]) =>
                    /\ cache'[c] = cache[c]
                    /\ sends'[i].request = <<>>
                    /\ IF instance.closure[c].async \/ alwaysAwaits(instance.transport)
                       THEN /\ sends'[i].pc = "awaitCredential"
                            /\ sends'[i].rejects
                            /\ sends'[i].value = Raised
                            /\ sends'[i].result = Pending
                       ELSE /\ sends'[i].pc = "done"
                            /\ sends'[i].result = Rejected(Raised)
          /\ (i \notin RejectedSends /\ sends'[i].result.kind = "rejected") =>
                  /\ sends'[i].result = Rejected(Raised)
                  /\ sends'[i].request = <<>>
                  /\ sends'[i].response.kind = "none"
                  /\ \A c \in Failing : cache'[c] = cache[c]
          /\ (/\ instance.state = "ready"
               /\ sends[i].pc = "idle"
               /\ sends'[i].pc # "idle"
               /\ sends'[i].attachments <= 5) =>
                  LET first == Credentials(instance.transport)[1] IN
                  (first \in FunctionCredentials /\ ~Cached(first)) =>
                      calls'[first] = calls[first] + 1
      ]_vars

(* the first send rejected at a failing credential function, the entry     *)
(* stayed unset, and the second send invoked the function again and went   *)
(* through with the value of the second invocation                         *)
C30_Witness ==
    /\ instance.state = "ready"
    /\ sends[1].result = Rejected(Raised)
    /\ sends[1].request = <<>>
    /\ sends[2].result = Fulfilled(Success)
    /\ \E c \in Failing :
          /\ calls[c] = 2
          /\ cache[c] = KeyOf(2)
          /\ sends[2].request[c] = KeyOf(2)

----------------------------------------------------------------------------
(* Concurrent calls of mail.send() on one registry                         *)

(* the number of calls of mail.send() in flight at once *)
MaxCalls == 2

(* a call that has not been made yet *)
IdleFlight ==
    [pc |-> "idle", sendParams |-> NoParams, invoked |-> <<>>,
     inner |-> Pending, outcome |-> Pending]

(* one registry, safe or throwing, with empty or two-entry lists *)
InitConcurrent ==
    /\ \E providers \in {<<>>, <<Provider(Undefined, TRUE), Provider("a", FALSE)>>},
          senders \in {<<>>, <<Sender(Undefined, Undefined, "default@example.com"),
                               Sender("a", "Test", "test@example.com")>>},
          safe \in BOOLEAN :
            mail = dynmail([providers |-> providers, senders |-> senders,
                            safe |-> safe])
    /\ flights = [k \in 1..MaxCalls |-> IdleFlight]
    /\ pc = "idle"
    /\ sendParams = NoParams
    /\ invoked = <<>>
    /\ inner = Pending
    /\ outcome = Pending
    /\ ClassifyIdle
    /\ TransportIdle
    /\ SenderIdle

(* call k of mail.send(p): its inner send runs up to its return or throw *)
CallConcurrently(k, p) ==
    /\ flights[k].pc = "idle"
    /\ \A j \in 1..(k - 1) : flights[j].pc # "idle"
    /\ LET s == send(mail, p) IN
         flights' = [flights EXCEPT ![k] =
            IF s.kind = "dispatch"
            THEN [pc |-> "awaitProvider", sendParams |-> p,
                  invoked |-> <<[provider |-> s.provider, params |-> s.params,
                                 promise |-> Pending]>>,
                  inner |-> Pending, outcome |-> Pending]
            ELSE [pc |-> IF mail.safe THEN "settled" ELSE "awaitSend",
                  sendParams |-> p, invoked |-> <<>>, inner |-> s.promise,
                  outcome |-> IF mail.safe THEN s.promise ELSE Pending]]
    /\ UNCHANGED <<mail, pc, sendParams, invoked, inner, outcome, outsideDispatch>>

(* variant: the calls in flight share one promise of the provider *)
ProviderSettlesForAll(k, b) ==
    /\ flights[k].pc = "awaitProvider"
    /\ flights' = [j \in DOMAIN flights |->
                     IF flights[j].pc = "awaitProvider"
                     THEN [flights[j] EXCEPT
                             !.invoked[1].promise = b,
                             !.inner = b,
                             !.outcome = IF mail.safe THEN b ELSE Pending,
                             !.pc = IF mail.safe THEN "settled" ELSE "awaitSend"]
                     ELSE flights[j]]
    /\ UNCHANGED <<mail, pc, sendParams, invoked, inner, outcome, outsideDispatch>>

(* the promise of the provider's send of call k settles *)
ProviderSettlesFor(k, b) ==
    /\ flights[k].pc = "awaitProvider"
    /\ flights' = [flights EXCEPT
                     ![k].invoked[1].promise = b,
                     ![k].inner = b,
                     ![k].outcome = IF mail.safe THEN b ELSE Pending,
                     ![k].pc = IF mail.safe THEN "settled" ELSE "awaitSend"]
    /\ UNCHANGED <<mail, pc, sendParams, invoked, inner, outcome, outsideDispatch>>

(* throwing mode: the wrapper of call k resumes after its await *)
WrapperResumesFor(k) ==
    /\ flights[k].pc = "awaitSend"
    /\ ~mail.safe
    /\ flights' = [flights EXCEPT ![k].outcome = unwrap(flights[k].inner),
                                  ![k].pc = "settled"]
    /\ UNCHANGED <<mail, pc, sendParams, invoked, inner, outcome, outsideDispatch>>

NextConcurrent ==
    \/ \E k \in 1..MaxCalls, provider \in {Undefined, "a"},
          from \in {"a", "missing-id"} :
            CallConcurrently(k, WithHints(CHOOSE m \in Messages : m.cc # Undefined,
                                          provider, from))
    \/ \E k \in 1..MaxCalls, b \in ProviderOutcomes : ProviderSettlesFor(k, b)
    \/ \E k \in 1..MaxCalls : WrapperResumesFor(k)

SpecConcurrent == InitConcurrent /\ [][NextConcurrent]_vars

(* C28: concurrent calls of mail.send() on one registry do not interfere.  *)
(* In every interleaving a step of one call leaves the other calls and the *)
(* registry's provider list, sender list and safe flag as they were; each  *)
(* call invokes the provider, with the sender and the params, that the     *)
(* same call invokes when it runs alone, and settles to the outcome the    *)
(* call has alone when its provider settles the same way.                  *)
C28_NoInterference ==
    [][ /\ mail' = mail
        /\ \A k \in DOMAIN flights :
              /\ flights'[k] # flights[k] =>
                    \A j \in DOMAIN flights \ {k} : flights'[j] = flights[j]
              /\ flights'[k].pc # "idle" =>
                    LET f == flights'[k]
                        s == send(mail, f.sendParams)
                    IN  /\ IF s.kind = "dispatch"
                           THEN /\ Len(f.invoked) = 1
                                /\ f.invoked[1].provider = s.provider
                                /\ f.invoked[1].params = s.params
                           ELSE f.invoked = <<>>
                        /\ f.pc = "settled" =>
                              f.outcome =
                                  mailSend(mail, f.sendParams,
                                           IF s.kind = "dispatch"
                                           THEN f.invoked[1].promise
                                           ELSE Pending)
                        /\ f.pc # "settled" => f.outcome = Pending
      ]_vars

(* the second call was made while the first awaits its provider, went to   *)
(* another provider with another sender, and has settled                   *)
C28_Witness ==
    /\ flights # <<>>
    /\ flights[1].pc = "awaitProvider"
    /\ flights[2].pc = "settled"
    /\ flights[2].invoked # <<>>
    /\ flights[2].invoked[1].provider # flights[1].invoked[1].provider
    /\ flights[2].invoked[1].params.from # flights[1].invoked[1].params.from
    /\ flights[2].outcome.kind # "pending"

====
